---- MODULE Spec2Model ----
(***************************************************************************)
(* Model of the document-to-study-material pipeline of the repository:     *)
(* the generate-flashcards edge function (page-aware version) and the      *)
(* distractor validation of the generate-quiz edge function.               *)
(*                                                                         *)
(* Texts are sequences of raw words.  A raw word is a maximal run of       *)
(* non-whitespace characters, or WS, a run of whitespace that is kept only *)
(* where it matters (leading/trailing padding that trim() removes).        *)
(* Numbers that the code computes as floating-point quotients are kept as  *)
(* exact fractions <<numerator, denominator>>.                             *)
(***************************************************************************)
EXTENDS Integers, Sequences, FiniteSets, TLC

\* ------------------------------------------------------------------ bounds
MaxDistractorWords == 4
MaxDedupeCards == 3
MaxPages == 5
MaxBatch == 3
MaxQuizCount == 2

\* ------------------------------------------------------------ text helpers
WS == "_"

\* String.prototype.toLowerCase on one raw word.
LowerWord(w) ==
  CASE w = "Cell" -> "cell"
    [] w = "ATP." -> "atp."
    [] OTHER -> w

ToLower(text) == [i \in 1..Len(text) |-> LowerWord(text[i])]

\* .replace(/[^\p{L}\p{N}\s]/gu, ' ').split(/\s+/).filter(Boolean) on one
\* lower-cased raw word: the tokens it yields.
SplitWord(lw) ==
  CASE lw = "atp." -> <<"atp">>
    [] lw = "--" -> <<>>
    [] lw = WS -> <<>>
    [] lw = "|||" -> <<>>
    [] OTHER -> <<lw>>

\* t.length of a token.
TokLen(t) ==
  CASE t = "is" -> 2
    [] t \in {"atp", "ell", "zzz"} -> 3
    [] t \in {"cell", "heat"} -> 4
    [] t \in {"makes", "power", "light", "water", "sugar"} -> 5
    [] OTHER -> 6

\* String.prototype.includes(t) restricted to one lower-cased raw word: a
\* token holds letters and digits only, so it occurs in a text exactly when it
\* occurs inside one of the text's raw words.
WordIncludes(lw, t) ==
  \/ lw = t
  \/ lw = "cell" /\ t = "ell"
  \/ lw = "atp." /\ t = "atp"

Includes(hs, t) == \E i \in 1..Len(hs) : WordIncludes(hs[i], t)

RECURSIVE tokenizeWords(_)
tokenizeWords(text) ==
  IF text = <<>> THEN <<>>
  ELSE SplitWord(LowerWord(Head(text))) \o tokenizeWords(Tail(text))

SeqToSet(s) == {s[i] : i \in 1..Len(s)}

TokenSet(text) == SeqToSet(tokenizeWords(text))

\* tokenizeWords(x).filter(t => t.length >= 3)
LongTokens(text) == SelectSeq(tokenizeWords(text), LAMBDA t : TokLen(t) >= 3)

\* String.prototype.trim
RECURSIVE TrimLeft(_)
TrimLeft(text) ==
  IF text # <<>> /\ Head(text) = WS THEN TrimLeft(Tail(text)) ELSE text

RECURSIVE TrimRight(_)
TrimRight(text) ==
  IF text # <<>> /\ text[Len(text)] = WS
  THEN TrimRight(SubSeq(text, 1, Len(text) - 1))
  ELSE text

Trim(text) == TrimRight(TrimLeft(text))

\* -------------------------------------------------------- exact fractions
Frac(n, d) == <<n, d>>
FLt(a, b) == a[1] * b[2] < b[1] * a[2]
FLe(a, b) == a[1] * b[2] <= b[1] * a[2]
FGe(a, b) == FLe(b, a)
FGt(a, b) == FLt(b, a)
FEq(a, b) == a[1] * b[2] = b[1] * a[2]
FSub(a, b) == <<a[1] * b[2] - b[1] * a[2], a[2] * b[2]>>
FAdd(a, b) == <<a[1] * b[2] + b[1] * a[2], a[2] * b[2]>>
FMul(a, b) == <<a[1] * b[1], a[2] * b[2]>>
FMax(a, b) == IF FGe(a, b) THEN a ELSE b
FMin(a, b) == IF FLe(a, b) THEN a ELSE b

\* ------------------------------------------------ generate-quiz helpers
computeJaccard(a, b) ==
  LET sa == TokenSet(a)
      sb == TokenSet(b)
  IN IF sa = {} \/ sb = {} THEN Frac(0, 1)
     ELSE Frac(Cardinality(sa \cap sb), Cardinality(sa \cup sb))

computeSupportScoreOfText(snippet, source) ==
  LET sTokens == TokenSet(source)
      tokens == LongTokens(snippet)
      matches == Cardinality({i \in 1..Len(tokens) : tokens[i] \in sTokens})
  IN IF Len(tokens) = 0 THEN Frac(0, 1) ELSE Frac(matches, Len(tokens))

\* A slip that turns the source-support test round: weakly supported
\* candidates are the ones dropped.
isValidDistractorSupportFlipped(candidate, correctAnswer, source) ==
  LET cand == Trim(candidate)
      sim == computeJaccard(cand, correctAnswer)
      candSupport == computeSupportScoreOfText(cand, source)
      correctSupport == computeSupportScoreOfText(correctAnswer, source)
  IN IF cand = <<>> THEN FALSE
     ELSE IF ToLower(cand) = ToLower(correctAnswer) THEN FALSE
     ELSE IF FGe(sim, Frac(85, 100)) THEN FALSE
     ELSE IF FLt(candSupport,
                 FMax(Frac(1, 2), FSub(correctSupport, Frac(15, 100))))
     THEN FALSE
     ELSE IF FGe(sim, Frac(15, 100)) /\ FLe(sim, Frac(75, 100)) THEN TRUE
     ELSE FGt(candSupport, Frac(0, 1)) /\ FLt(sim, Frac(15, 100))

\* A slip that adds the margin to the support of the correct answer.
isValidDistractorMarginAdded(candidate, correctAnswer, source) ==
  LET cand == Trim(candidate)
      sim == computeJaccard(cand, correctAnswer)
      candSupport == computeSupportScoreOfText(cand, source)
      correctSupport == computeSupportScoreOfText(correctAnswer, source)
  IN IF cand = <<>> THEN FALSE
     ELSE IF ToLower(cand) = ToLower(correctAnswer) THEN FALSE
     ELSE IF FGe(sim, Frac(85, 100)) THEN FALSE
     ELSE IF FGe(candSupport,
                 FMax(Frac(1, 2), FAdd(correctSupport, Frac(15, 100))))
     THEN FALSE
     ELSE IF FGe(sim, Frac(15, 100)) /\ FLe(sim, Frac(75, 100)) THEN TRUE
     ELSE FGt(candSupport, Frac(0, 1)) /\ FLt(sim, Frac(15, 100))

isValidDistractor(candidate, correctAnswer, source) ==
  IF candidate = <<>> THEN FALSE
  ELSE LET cand == Trim(candidate)
           j == computeJaccard(cand, correctAnswer)
           candSupport == computeSupportScoreOfText(cand, source)
           correctSupport == computeSupportScoreOfText(correctAnswer, source)
           sim == computeJaccard(cand, correctAnswer)
       IN IF cand = <<>> THEN FALSE
          ELSE IF ToLower(cand) = ToLower(correctAnswer) THEN FALSE
          ELSE IF FGe(j, Frac(85, 100)) THEN FALSE
          ELSE IF FGe(candSupport,
                      FMax(Frac(1, 2), FSub(correctSupport, Frac(15, 100))))
          THEN FALSE
          ELSE IF FGe(sim, Frac(15, 100)) /\ FLe(sim, Frac(75, 100)) THEN TRUE
          ELSE IF FGt(candSupport, Frac(0, 1)) /\ FLt(sim, Frac(15, 100)) THEN TRUE
          ELSE FALSE

\* ------------------------------------------- generate-flashcards helpers
DEDUPE_JACCARD_THRESHOLD == Frac(7, 10)

\* A card is [question, answer, difficulty, confidence, page_from, page_to].
\* confidence is a fraction, or Undefined when the property was never set;
\* difficulty "" is a missing difficulty; page_from/page_to NullPage is null.
Undefined == <<>>
NullPage == -1

\* (c.confidence || 0)
ConfOrZero(c) == IF c.confidence = Undefined THEN Frac(0, 1) ELSE c.confidence

\* `${c.question} ||| ${c.answer}`
Combined(c) == c.question \o <<"|||">> \o c.answer

\* The entries of unique that the inner loop of dedupeCards would find
\* similar to c; the loop stops at the first of them.
DupIndexes(unique, c, threshold) ==
  {i \in 1..Len(unique) :
     FGe(computeJaccard(Combined(c), Combined(unique[i])), threshold)}

Min(S) == CHOOSE x \in S : \A y \in S : x <= y

\* A variant that takes the page range of the later card too.
UpgradeWithPages(u, c) ==
  [u EXCEPT !.question = c.question,
            !.answer = c.answer,
            !.difficulty = IF c.difficulty # "" THEN c.difficulty ELSE @,
            !.confidence = c.confidence,
            !.page_from = c.page_from,
            !.page_to = c.page_to]

\* The assignments of the upgrade branch.
Upgrade(u, c) ==
  [u EXCEPT !.question = c.question,
            !.answer = c.answer,
            !.difficulty = IF c.difficulty # "" THEN c.difficulty ELSE @,
            !.confidence = c.confidence]

\* A slip that compares the confidences the wrong way round.
DedupeOneKeepsLower(unique, c, threshold) ==
  LET dups == DupIndexes(unique, c, threshold)
  IN IF dups = {} THEN Append(unique, c)
     ELSE LET i == Min(dups)
          IN IF FLt(ConfOrZero(c), ConfOrZero(unique[i]))
             THEN [unique EXCEPT ![i] = Upgrade(@, c)]
             ELSE unique

\* One iteration of the outer loop of dedupeCards.
DedupeOne(unique, c, threshold) ==
  LET dups == DupIndexes(unique, c, threshold)
  IN IF dups = {} THEN Append(unique, c)
     ELSE LET i == Min(dups)
          IN IF FGt(ConfOrZero(c), ConfOrZero(unique[i]))
             THEN [unique EXCEPT ![i] = Upgrade(@, c)]
             ELSE unique

RECURSIVE DedupeFrom(_, _, _)
DedupeFrom(unique, cards, threshold) ==
  IF cards = <<>> THEN unique
  ELSE DedupeFrom(DedupeOne(unique, Head(cards), threshold), Tail(cards), threshold)

\* A variant that drops every card that has a duplicate in the list.
dedupeCardsDropsAll(cards, threshold) ==
  SelectSeq(cards, LAMBDA c : Cardinality(DupIndexes(cards, c, threshold)) = 1)

dedupeCards(cards, threshold) == DedupeFrom(<<>>, cards, threshold)

\* ------------------------------------------------ pages, chunks, selection
CHARS_PER_PAGE_ESTIMATE == 3000
CHUNK_SIZE == 2200
CHUNK_OVERLAP == 300
MAX_CONTENT_SIZE == 30000
\* const chunkSize = 2000 of the fallback of the version without page tags
FLAT_FALLBACK_SIZE == 2000

\* A text whose words are not spelled out is kept as [len, d]: its length in
\* characters and the number of keyword-token occurrences per 100 characters
\* (0: it holds no token longer than 2 characters outside the stopwords).
\* Such a text has no whitespace where a window is cut, so trim() keeps a
\* slice whole.  A page is [no, len, d], no being its 1-based position in the
\* document; a chunk is [id, len, page_from, page_to, start, end, score, src],
\* len being text.length and src the page (no) the text was cut from.
MinOf(a, b) == IF a <= b THEN a ELSE b
MaxOf(a, b) == IF a >= b THEN a ELSE b
CeilDiv(a, b) == (a + b - 1) \div b

RECURSIVE SumLen(_)
SumLen(chunks) ==
  IF chunks = <<>> THEN 0 ELSE Head(chunks).len + SumLen(Tail(chunks))

\* splitIntoPages: the document's own page breaks (form feeds, or lines
\* "Page N") when it has more than one page, else pages of 3000 characters.
\* A page's stretch [from, to) of whitespace long enough to fill a window;
\* NoBlank for a page without one. No page begins or ends with whitespace:
\* splitIntoPages trims every page.
NoBlank == <<0, 0>>

splitIntoPages(doc) ==
  IF Len(doc) > 1
  THEN [i \in 1..Len(doc) |->
          [no |-> i, len |-> doc[i].len, d |-> doc[i].d, blank |-> doc[i].blank]]
  ELSE LET total == doc[1].len
           numPages == MaxOf(1, CeilDiv(total, CHARS_PER_PAGE_ESTIMATE))
       IN [i \in 1..numPages |->
             [no |-> i,
              len |-> MinOf(total, i * CHARS_PER_PAGE_ESTIMATE)
                      - (i - 1) * CHARS_PER_PAGE_ESTIMATE,
              d |-> doc[1].d,
              blank |-> NoBlank]]

\* Array.prototype.slice(begin, end)
JsSlice(arr, begin, end) ==
  LET n == Len(arr)
      b == IF begin < 0 THEN MaxOf(n + begin, 0) ELSE MinOf(begin, n)
      e == IF end < 0 THEN MaxOf(n + end, 0) ELSE MinOf(end, n)
  IN IF b < e THEN SubSeq(arr, b + 1, e) ELSE <<>>

\* String.prototype.substring(a, b): the length of the result.
SubstringLen(n, a, b) ==
  LET x == MinOf(MaxOf(a, 0), n)
      y == MinOf(MaxOf(b, 0), n)
  IN IF x <= y THEN y - x ELSE x - y

\* startPage || 1, endPage || pages.length
OrElse(v, dflt) == IF v = 0 THEN dflt ELSE v

RangeFrom(startPage) == MaxOf(1, OrElse(startPage, 1))
RangeTo(endPage, pageCount) == MinOf(pageCount, OrElse(endPage, pageCount))

\* if (startPage || endPage) pagesToUse = pages.slice(from-1, to)
PagesToUse(pages, startPage, endPage) ==
  IF startPage # 0 \/ endPage # 0
  THEN JsSlice(pages, RangeFrom(startPage) - 1, RangeTo(endPage, Len(pages)))
  ELSE pages

\* A slip that moves to the end of the window without stepping back by the
\* overlap.
RECURSIVE WindowsNoOverlap(_, _, _, _)
WindowsNoOverlap(start, len, chunkSize, overlap) ==
  IF ~(start < len) THEN <<>>
  ELSE LET end == MinOf(start + chunkSize, len)
       IN <<<<start, end>>>> \o
          (IF end = len THEN <<>>
           ELSE WindowsNoOverlap(end, len, chunkSize, overlap))

\* The while loop of chunkPagesToChunks / chunkTextByChars on one text of
\* length len: the windows <<start, end>> it cuts.
RECURSIVE Windows(_, _, _, _)
Windows(start, len, chunkSize, overlap) ==
  IF ~(start < len) THEN <<>>
  ELSE LET end == MinOf(start + chunkSize, len)
           next == MaxOf(end - overlap, 0)
       IN <<<<start, end>>>> \o
          (IF end = len THEN <<>> ELSE Windows(next, len, chunkSize, overlap))

\* pageText.slice(start, end).trim().length for the window w of a page.
TrimmedLen(page, w) ==
  LET from == IF page.blank[1] <= w[1] /\ w[1] < page.blank[2]
              THEN page.blank[2] ELSE w[1]
      to == IF page.blank[1] < w[2] /\ w[2] <= page.blank[2]
            THEN page.blank[1] ELSE w[2]
  IN IF to > from THEN to - from ELSE 0

\* The chunks of page p (0-based position in pages), ids from firstId: one
\* for every window whose trimmed slice is not empty.
PageChunks(page, p, firstId, globalOffset, chunkSize, overlap) ==
  LET w == SelectSeq(Windows(0, page.len, chunkSize, overlap),
                     LAMBDA x : TrimmedLen(page, x) > 0)
  IN [k \in 1..Len(w) |->
        [id |-> firstId + k - 1,
         len |-> TrimmedLen(page, w[k]),
         page_from |-> p + 1,
         page_to |-> p + 1,
         start |-> globalOffset + w[k][1],
         end |-> globalOffset + w[k][2],
         score |-> 0,
         src |-> page.no,
         d |-> page.d]]

RECURSIVE ChunksFrom(_, _, _, _, _, _)
ChunksFrom(pages, p, firstId, globalOffset, chunkSize, overlap) ==
  IF p >= Len(pages) THEN <<>>
  ELSE LET cs == PageChunks(pages[p + 1], p, firstId, globalOffset,
                            chunkSize, overlap)
       IN cs \o ChunksFrom(pages, p + 1, firstId + Len(cs),
                           globalOffset + pages[p + 1].len, chunkSize, overlap)

chunkPagesToChunks(pages, chunkSize, overlap) ==
  ChunksFrom(pages, 0, 0, 0, chunkSize, overlap)

\* getTopKeywords(pagesToUse.join(' '), 60) is empty exactly when no page
\* holds a countable token.
HasKeywords(pages) == \E i \in 1..Len(pages) : pages[i].d > 0

\* A slip that puts a chunk before the earlier chunks of the same score.
RECURSIVE InsertByScoreUnstable(_, _)
InsertByScoreUnstable(sorted, c) ==
  IF sorted = <<>> THEN <<c>>
  ELSE IF Head(sorted).score > c.score
       THEN <<Head(sorted)>> \o InsertByScoreUnstable(Tail(sorted), c)
       ELSE <<c>> \o sorted

\* Array.prototype.sort((a,b) => (b.score||0) - (a.score||0)): stable.
RECURSIVE InsertByScore(_, _)
InsertByScore(sorted, c) ==
  IF sorted = <<>> THEN <<c>>
  ELSE IF Head(sorted).score >= c.score
       THEN <<Head(sorted)>> \o InsertByScore(Tail(sorted), c)
       ELSE <<c>> \o sorted

RECURSIVE SortByScore(_)
SortByScore(chunks) ==
  IF chunks = <<>> THEN <<>>
  ELSE InsertByScore(SortByScore(SubSeq(chunks, 1, Len(chunks) - 1)),
                     chunks[Len(chunks)])

\* The number of a chunk's tokens that are keywords.
KeywordHits(c) == c.d * (c.len \div 100)

scoreChunksByKeywords(chunks, hasKeywords) ==
  IF ~hasKeywords THEN chunks
  ELSE SortByScore([i \in 1..Len(chunks) |->
                      [chunks[i] EXCEPT !.score = KeywordHits(chunks[i])]])

RECURSIVE TotalScore(_)
TotalScore(chunks) ==
  IF chunks = <<>> THEN 0 ELSE Head(chunks).score + TotalScore(Tail(chunks))

\* A slip that drops the test that skips a chunk that does not fit.
RECURSIVE SelectNoSkip(_, _, _, _)
SelectNoSkip(chunks, selected, used, maxChars) ==
  IF chunks = <<>> THEN selected
  ELSE LET c == Head(chunks)
       IN IF used + c.len >= maxChars THEN Append(selected, c)
          ELSE SelectNoSkip(Tail(chunks), Append(selected, c), used + c.len,
                            maxChars)

selectTopChunksByCharsNoSkip(chunks, maxChars) ==
  SelectNoSkip(chunks, <<>>, 0, maxChars)

RECURSIVE SelectLoop(_, _, _, _)
SelectLoop(chunks, selected, used, maxChars) ==
  IF chunks = <<>> THEN selected
  ELSE LET c == Head(chunks)
       IN IF used + c.len > maxChars
          THEN SelectLoop(Tail(chunks), selected, used, maxChars)
          ELSE IF used + c.len >= maxChars THEN Append(selected, c)
          ELSE SelectLoop(Tail(chunks), Append(selected, c), used + c.len,
                          maxChars)

selectTopChunksByChars(chunks, maxChars) ==
  SelectLoop(chunks, <<>>, 0, maxChars)

\* pagesToUse.join('\n\n').length
FlatLen(pages) ==
  IF pages = <<>> THEN 0
  ELSE SumLen(pages) + 2 * (Len(pages) - 1)

\* The evenly spaced chunks built when the total score is 0: numChunks
\* slices of at most sliceSize characters of a text of length flatLen.
FallbackChunks(flatLen, sliceSize, pageTo, paged) ==
  LET numChunks == IF MAX_CONTENT_SIZE \div sliceSize = 0 THEN 1
                   ELSE MAX_CONTENT_SIZE \div sliceSize
      step == flatLen \div numChunks
  IN [k \in 1..numChunks |->
        LET s == (k - 1) * step
            n == SubstringLen(flatLen, s, s + sliceSize)
        IN [id |-> k - 1,
            len |-> n,
            page_from |-> IF paged THEN 1 ELSE NullPage,
            page_to |-> IF paged THEN pageTo ELSE NullPage,
            start |-> s,
            end |-> IF paged THEN s + n ELSE s + sliceSize,
            score |-> 0,
            src |-> 0,
            d |-> 0]]

\* --------------------------------------------- grounding and confidence
SUPPORT_RETRY_THRESHOLD == Frac(6, 10)
MIN_ACCEPT_SUPPORT_RATE == Frac(5, 10)

RECURSIVE Gcd(_, _)
Gcd(a, b) == IF b = 0 THEN a ELSE Gcd(b, a % b)

\* One representation for each value a quotient can take.
Reduce(f) ==
  IF f[1] = 0 THEN Frac(0, 1)
  ELSE Frac(f[1] \div Gcd(f[1], f[2]), f[2] \div Gcd(f[1], f[2]))

supportedBySource(needle, haystack) ==
  IF needle = <<>> \/ haystack = <<>> THEN FALSE
  ELSE LET tokens == LongTokens(needle)
           hs == ToLower(haystack)
       IN \E i \in 1..Len(tokens) : Includes(hs, tokens[i])

\* function overlapRatio(tokens) of computeSupportScore
OverlapRatio(tokens, sourceSet) ==
  IF Len(tokens) = 0 THEN Frac(0, 1)
  ELSE Frac(Cardinality({i \in 1..Len(tokens) : tokens[i] \in sourceSet}),
            Len(tokens))

computeSupportScore(card, source) ==
  LET qScore == OverlapRatio(LongTokens(card.question), TokenSet(source))
      aScore == OverlapRatio(LongTokens(card.answer), TokenSet(source))
  IN Reduce(FMin(Frac(1, 1),
                 FAdd(FMul(Frac(4, 10), qScore), FMul(Frac(6, 10), aScore))))

\* The version without page tags: overlapRatio divides the matching tokens
\* of 3 or more characters by the number of all tokens of the field.
FlatOverlapRatio(tokens, sourceTokens) ==
  IF Len(tokens) = 0 THEN Frac(0, 1)
  ELSE Frac(Cardinality({i \in 1..Len(tokens) :
                           TokLen(tokens[i]) >= 3 /\ tokens[i] \in sourceTokens}),
            Len(tokens))

FlatComputeSupportScore(card, source) ==
  LET qScore == FlatOverlapRatio(tokenizeWords(card.question), TokenSet(source))
      aScore == FlatOverlapRatio(tokenizeWords(card.answer), TokenSet(source))
  IN Reduce(FMin(Frac(1, 1),
                 FAdd(FMul(Frac(4, 10), qScore), FMul(Frac(6, 10), aScore))))

CardSupported(c, source) ==
  supportedBySource(c.question, source) \/ supportedBySource(c.answer, source)

\* if (!c.difficulty) c.difficulty = 'medium'
WithDifficulty(c) ==
  IF c.difficulty = "" THEN [c EXCEPT !.difficulty = "medium"] ELSE c

\* A slip that keeps every card, supported or not.
validateFlashcardsKeepsAll(cards, source) ==
  LET ok == {i \in 1..Len(cards) : CardSupported(cards[i], source)}
  IN [validated |-> [i \in 1..Len(cards) |-> WithDifficulty(cards[i])],
      supportRate |-> IF Len(cards) = 0 THEN Frac(0, 1)
                      ELSE Reduce(Frac(Cardinality(ok), Len(cards)))]

validateFlashcards(cards, source) ==
  LET withDiff == [i \in 1..Len(cards) |-> WithDifficulty(cards[i])]
      supported == Cardinality({i \in 1..Len(cards) :
                                  CardSupported(cards[i], source)})
  IN [validated |-> SelectSeq(withDiff, LAMBDA c : CardSupported(c, source)),
      supportRate |-> IF Len(cards) = 0 THEN Frac(0, 1)
                      ELSE Reduce(Frac(supported, Len(cards)))]

\* A slip that retries only below the acceptance floor.
NeedsRetryBelowFloor(supportRate) == FLt(supportRate, MIN_ACCEPT_SUPPORT_RATE)

\* if (supportRate < SUPPORT_RETRY_THRESHOLD)
NeedsRetry(supportRate) == FLt(supportRate, SUPPORT_RETRY_THRESHOLD)

\* A slip that rejects a batch only when no card at all is supported.
RejectedOnlyWhenEmpty(supportRate, validated) == Len(validated) = 0

\* if (supportRate < MIN_ACCEPT_SUPPORT_RATE || validated.length === 0)
Rejected(supportRate, validated) ==
  FLt(supportRate, MIN_ACCEPT_SUPPORT_RATE) \/ Len(validated) = 0

\* The position (0-based, in characters) of the first occurrence of the
\* text needle in a content of len characters whose words are spread evenly,
\* or -1: String.prototype.indexOf on the lower-cased texts.
IndexOf(content, needle) ==
  LET hs == ToLower(content.words)
      nd == ToLower(needle)
      at == {i \in 1..(Len(hs) - Len(nd) + 1) :
               \A k \in 1..Len(nd) : hs[i + k - 1] = nd[k]}
  IN IF nd = <<>> THEN 0
     ELSE IF at = {} THEN -1
     ELSE (Min(at) - 1) * (content.len \div Len(hs))

\* A chunk of the prompt with its words spelled out: [page_from, page_to,
\* words].  The loop that looks for the best matching selected chunk: the
\* share of the card's tokens that are tokens of 3 or more characters of
\* the chunk.
ChunkMatch(c, chunk) ==
  LET cTokens == TokenSet(c.question \o c.answer)
      chunkTokens == TokenSet(chunk.words)
  IN IF cTokens = {} THEN Frac(0, 1)
     ELSE Frac(Cardinality({t \in cTokens : t \in chunkTokens /\ TokLen(t) >= 3}),
               Cardinality(cTokens))

\* bestIdx (1-based; 0 when no chunk scores above 0): the first chunk of
\* the highest score.
BestIdx(c, selectedChunks) ==
  LET better(i) == \A k \in 1..Len(selectedChunks) :
                     /\ FGe(ChunkMatch(c, selectedChunks[i]),
                            ChunkMatch(c, selectedChunks[k]))
                     /\ k < i => FGt(ChunkMatch(c, selectedChunks[i]),
                                     ChunkMatch(c, selectedChunks[k]))
      best == {i \in 1..Len(selectedChunks) :
                 /\ FGt(ChunkMatch(c, selectedChunks[i]), Frac(0, 1))
                 /\ better(i)}
  IN IF best = {} THEN 0 ELSE Min(best)

\* A slip that leaves the + 1 out of the estimated page.
MappedPagesZeroBased(selectedChunks, bestIdx, pos) ==
  IF bestIdx > 0
  THEN <<selectedChunks[bestIdx].page_from, selectedChunks[bestIdx].page_to>>
  ELSE IF pos >= 0
  THEN <<pos \div CHARS_PER_PAGE_ESTIMATE, pos \div CHARS_PER_PAGE_ESTIMATE>>
  ELSE <<NullPage, NullPage>>

\* <<page_from, page_to>> of a card: those of the chunk bestIdx (1-based, 0
\* when no chunk is taken), else the page estimated from the position pos of
\* its answer in the content, else null.
MappedPages(selectedChunks, bestIdx, pos) ==
  IF bestIdx > 0
  THEN <<selectedChunks[bestIdx].page_from, selectedChunks[bestIdx].page_to>>
  ELSE IF pos >= 0
  THEN <<(pos \div CHARS_PER_PAGE_ESTIMATE) + 1,
         (pos \div CHARS_PER_PAGE_ESTIMATE) + 1>>
  ELSE <<NullPage, NullPage>>

\* c.confidence = computeSupportScore(c, content); c.page_from = ...
WithConfidenceAndPages(c, content, selectedChunks) ==
  LET conf == computeSupportScore(c, content.words)
      bestIdx == BestIdx(c, selectedChunks)
      taken == IF bestIdx > 0
                  /\ FGe(ChunkMatch(c, selectedChunks[bestIdx]), Frac(5, 100))
               THEN bestIdx ELSE 0
      pages == MappedPages(selectedChunks, taken, IndexOf(content, c.answer))
  IN [question |-> c.question, answer |-> c.answer,
      difficulty |-> c.difficulty, confidence |-> conf,
      page_from |-> pages[1], page_to |-> pages[2]]

\* card.difficulty || 'medium'
DifficultyOrMedium(c) == IF c.difficulty = "" THEN "medium" ELSE c.difficulty

\* A variant that keeps only the cards that carry a page range.
flashcardsToInsertPaged(deduped, setId) ==
  LET kept == SelectSeq(deduped, LAMBDA c : c.page_from # NullPage)
  IN [i \in 1..Len(kept) |->
        [set_id |-> setId,
         question |-> kept[i].question,
         answer |-> kept[i].answer,
         difficulty |-> DifficultyOrMedium(kept[i]),
         page_from |-> kept[i].page_from,
         page_to |-> kept[i].page_to]]

\* const flashcardsToInsert = deduped.map(...)
flashcardsToInsert(deduped, setId) ==
  [i \in 1..Len(deduped) |->
     [set_id |-> setId,
      question |-> deduped[i].question,
      answer |-> deduped[i].answer,
      difficulty |-> DifficultyOrMedium(deduped[i]),
      page_from |-> deduped[i].page_from,
      page_to |-> deduped[i].page_to]]

\* const responseCards = deduped.map(...)
responseCards(deduped) ==
  [i \in 1..Len(deduped) |->
     [question |-> deduped[i].question,
      answer |-> deduped[i].answer,
      difficulty |-> DifficultyOrMedium(deduped[i]),
      confidence |-> ConfOrZero(deduped[i]),
      page_from |-> deduped[i].page_from,
      page_to |-> deduped[i].page_to]]

\* ------------------------------------------------------------------ state
VARIABLES
  \* isValidDistractor applied to one candidate, then pickBestDistractors
  \* applied to it and the sentences of the source
  dpc, dCandidate, dCorrect, dSource, dResult, dChosen,
  \* dedupeCards run on one list, one outer-loop iteration per step
  ddpc, ddCards, ddI, ddUnique, ddAgain,
  \* page range, chunking and chunk selection of one request, and the page
  \* range given to one card
  cpc, cVariant, cDoc, cStart, cEnd, cPages, cFrom, cTo, cPagesToUse, cChunks,
  cSelected, cFallback, cCardPages,
  \* one request to the generate-flashcards function, one step per awaited
  \* reply: position, request method, what the Authorization header and the
  \* documents query turned out to be, extracted content, usedOcr, storage
  \* downloads and OCR calls issued, generation calls issued, the batch in
  \* `flashcards`, `validated`, `supportRate`, the size and supported count
  \* of the first batch, `deduped`, the rows of flashcard_sets and of
  \* flashcards, the response
  hpc, hMethod, hInput, hContent, hUsedOcr, hDownloads, hOcrCalls, hCalls, hFlashcards,
  hValidated, hSupportRate, hFirstEval, hDeduped, hSets, hRows, hResponse,
  \* computeSupportScore applied to one card and one source
  spc, sVariant, sCard, sSource, sScore,
  \* one request to the generate-quiz function, one step per awaited reply:
  \* position, request method, what the Authorization header and the
  \* documents query turned out to be, `count`, `validatedCards`, `content`,
  \* `rawSentences`, the promises buildMCQFromCard returned (in the order of
  \* `questions`), callAIGenerateQuiz calls issued, `aiQuestions`,
  \* `validatedItems`, the
  \* rows of quizzes, the response
  qpc, qMethod, qInput, qCount, qCards, qContent, qSentences, qPromises,
  qCalls, qAiQuestions, qItems, qQuizzes, qResponse,
  \* buildQuizFromFlashcards run on one list of stored cards, one iteration
  \* of its loop per step: position, `cards`, `requestedCount`, `pool`, `i`,
  \* `questions`
  rpc, rCards, rCount, rPool, rI, rQuestions

dvars == <<dpc, dCandidate, dCorrect, dSource, dResult, dChosen>>
ddvars == <<ddpc, ddCards, ddI, ddUnique, ddAgain>>
cvars == <<cpc, cVariant, cDoc, cStart, cEnd, cPages, cFrom, cTo, cPagesToUse,
           cChunks, cSelected, cFallback, cCardPages>>
hvars == <<hpc, hMethod, hInput, hContent, hUsedOcr, hDownloads, hOcrCalls, hCalls,
           hFlashcards, hValidated, hSupportRate, hFirstEval, hDeduped, hSets,
           hRows, hResponse>>
svars == <<spc, sVariant, sCard, sSource, sScore>>
qvars == <<qpc, qMethod, qInput, qCount, qCards, qContent, qSentences,
           qPromises, qCalls, qAiQuestions, qItems, qQuizzes, qResponse>>
rvars == <<rpc, rCards, rCount, rPool, rI, rQuestions>>
vars == <<dvars, ddvars, cvars, hvars, svars, qvars, rvars>>

ReuseIdle ==
  /\ rpc = "off"
  /\ rCards = <<>>
  /\ rCount = 0
  /\ rPool = <<>>
  /\ rI = 0
  /\ rQuestions = <<>>

NoQuizResponse == [status |-> 0, body |-> "", error |-> ""]

QuizIdle ==
  /\ qpc = "off"
  /\ qMethod = "POST"
  /\ qInput = [auth |-> "", doc |-> ""]
  /\ qCount = 0
  /\ qCards = <<>>
  /\ qContent = [words |-> <<>>, len |-> 0]
  /\ qSentences = <<>>
  /\ qPromises = <<>>
  /\ qCalls = 0
  /\ qAiQuestions = <<>>
  /\ qItems = <<>>
  /\ qQuizzes = <<>>
  /\ qResponse = NoQuizResponse

SupportIdle ==
  /\ spc = "off"
  /\ sVariant = "paged"
  /\ sCard = [question |-> <<>>, answer |-> <<>>]
  /\ sSource = <<>>
  /\ sScore = <<0, 1>>

EmptyText == [words |-> <<>>, len |-> 0]
NoResponse == [status |-> 0, body |-> "", error |-> "", count |-> 0,
               flashcards |-> <<>>, usedOcr |-> FALSE]

HandlerIdle ==
  /\ hpc = "off"
  /\ hMethod = "POST"
  /\ hInput = [auth |-> "", doc |-> ""]
  /\ hContent = EmptyText
  /\ hUsedOcr = FALSE
  /\ hDownloads = 0
  /\ hOcrCalls = 0
  /\ hCalls = <<>>
  /\ hFlashcards = <<>>
  /\ hValidated = <<>>
  /\ hSupportRate = Frac(0, 1)
  /\ hFirstEval = [total |-> 0, supported |-> 0]
  /\ hDeduped = <<>>
  /\ hSets = <<>>
  /\ hRows = <<>>
  /\ hResponse = NoResponse

ChunkIdle ==
  /\ cpc = "off"
  /\ cVariant = "paged"
  /\ cDoc = <<>>
  /\ cStart = 0
  /\ cEnd = 0
  /\ cPages = <<>>
  /\ cFrom = 0
  /\ cTo = 0
  /\ cPagesToUse = <<>>
  /\ cChunks = <<>>
  /\ cSelected = <<>>
  /\ cFallback = FALSE
  /\ cCardPages = <<>>

DistractorIdle ==
  /\ dpc = "off"
  /\ dCandidate = <<>>
  /\ dCorrect = <<>>
  /\ dSource = <<>>
  /\ dResult = FALSE
  /\ dChosen = <<>>

DedupeIdle ==
  /\ ddpc = "off"
  /\ ddCards = <<>>
  /\ ddI = 0
  /\ ddUnique = <<>>
  /\ ddAgain = <<>>

\* ------------------------------------- inputs of the distractor check
BaseWords == <<"cell", "atp", "energy", "makes", "power">>

\* The words of BaseWords at the positions of S, in order.
RECURSIVE PickWords(_, _)
PickWords(S, i) ==
  IF i > Len(BaseWords) THEN <<>>
  ELSE (IF i \in S THEN <<BaseWords[i]>> ELSE <<>>) \o PickWords(S, i + 1)

TenWords ==
  <<"cell", "atp", "energy", "makes", "power",
    "heat", "light", "water", "sugar", "oxygen">>

DistractorTexts ==
  {PickWords(S, 1) : S \in {T \in SUBSET (1..Len(BaseWords)) :
                              Cardinality(T) <= MaxDistractorWords}}
  \cup {<<WS, "cell", "atp", WS>>, <<"Cell", "ATP.">>, <<"atp", "cell">>,
        <<"--">>, <<WS>>, <<WS, "--", WS>>, <<"zzz">>, <<"zzz", "cell">>,
        TenWords, SubSeq(TenWords, 1, 9)}

TwoSentences ==
  <<"cell", "makes", "energy", "power", "ATP.",
    "zzz", "is", "heat", "light", "water", "oxygen">>

DistractorSources ==
  {<<>>, <<"cell", "atp", "energy">>, <<"zzz", "is">>, TenWords, TwoSentences}

DistractorInit ==
  /\ dpc = "ready"
  /\ dCandidate \in DistractorTexts
  /\ dCorrect \in DistractorTexts
  /\ dSource \in DistractorSources
  /\ dResult = FALSE
  /\ dChosen = <<>>
  /\ DedupeIdle
  /\ ChunkIdle
  /\ HandlerIdle
  /\ SupportIdle
  /\ QuizIdle
  /\ ReuseIdle

CheckDistractor ==
  /\ dpc = "ready"
  /\ dResult' = isValidDistractor(dCandidate, dCorrect, dSource)
  /\ dpc' = "done"
  /\ UNCHANGED <<dCandidate, dCorrect, dSource, dChosen, ddvars, cvars, hvars, svars, qvars, rvars>>


\* ---------------------------------------------- inputs of dedupeCards
\* Token sets of the combined texts: A = {cell, makes, atp},
\* C = A + {energy}, B = C + {power}, A2 = A written differently, D disjoint.
DedupeTexts ==
  { [question |-> <<"cell", "makes">>, answer |-> <<"atp">>,
     difficulty |-> "easy", page_from |-> 1, page_to |-> 1],
    [question |-> <<"cell", "makes">>, answer |-> <<"atp", "energy">>,
     difficulty |-> "medium", page_from |-> 2, page_to |-> 2],
    [question |-> <<"cell", "makes", "power">>, answer |-> <<"atp", "energy">>,
     difficulty |-> "hard", page_from |-> 3, page_to |-> 3],
    [question |-> <<"Cell", "makes">>, answer |-> <<"ATP.">>,
     difficulty |-> "", page_from |-> NullPage, page_to |-> NullPage],
    [question |-> <<"heat", "light">>, answer |-> <<"water">>,
     difficulty |-> "easy", page_from |-> 1, page_to |-> 2] }

DedupeConfidences == {Undefined, Frac(1, 2), Frac(1, 1)}

DedupeInputCards ==
  { [question |-> t.question, answer |-> t.answer, difficulty |-> t.difficulty,
     confidence |-> k, page_from |-> t.page_from, page_to |-> t.page_to] :
    t \in DedupeTexts, k \in DedupeConfidences }

SeqsUpTo(S, n) == UNION {[1..k -> S] : k \in 0..n}

DedupeInit ==
  /\ ddpc = "loop"
  /\ ddCards \in SeqsUpTo(DedupeInputCards, MaxDedupeCards)
  /\ ddI = 0
  /\ ddUnique = <<>>
  /\ ddAgain = <<>>
  /\ DistractorIdle
  /\ ChunkIdle
  /\ HandlerIdle
  /\ SupportIdle
  /\ QuizIdle
  /\ ReuseIdle

\* for (const c of cards) { ... }: one card.
DedupeStep ==
  /\ ddpc = "loop"
  /\ ddI < Len(ddCards)
  /\ ddUnique' = DedupeOne(ddUnique, ddCards[ddI + 1], DEDUPE_JACCARD_THRESHOLD)
  /\ ddI' = ddI + 1
  /\ UNCHANGED <<ddpc, ddCards, ddAgain, dvars, cvars, hvars, svars, qvars, rvars>>

\* return unique
DedupeReturn ==
  /\ ddpc = "loop"
  /\ ddI = Len(ddCards)
  /\ ddpc' = "done"
  /\ UNCHANGED <<ddCards, ddI, ddUnique, ddAgain, dvars, cvars, hvars, svars, qvars, rvars>>

\* dedupeCards called on the list it returned.
DedupeRerun ==
  /\ ddpc = "done"
  /\ ddAgain' = dedupeCards(ddUnique, DEDUPE_JACCARD_THRESHOLD)
  /\ ddpc' = "rerun"
  /\ UNCHANGED <<ddCards, ddI, ddUnique, dvars, cvars, hvars, svars, qvars, rvars>>

DedupeNext == DedupeStep \/ DedupeReturn \/ DedupeRerun

SpecDedupe == DedupeInit /\ [][DedupeNext]_vars

\* ------------------------------------- page range, chunking, selection
\* The page of 2500 characters holds 25 different countable words (longer
\* than 2 characters, no stopwords), each once, the same on every such page;
\* the pages of 12000 characters with d = 2 and the long text with d = 1
\* repeat theirs.  A document never holds more than 60 different countable
\* words, so getTopKeywords keeps them all.
PageKinds ==
  { [len |-> 900, d |-> 0, blank |-> NoBlank],
    [len |-> 2500, d |-> 1, blank |-> NoBlank],
    [len |-> 12000, d |-> 2, blank |-> NoBlank],
    [len |-> 12000, d |-> 0, blank |-> NoBlank] }

\* A page whose characters 1900 to 4099 are blank lines.
BlankPage == [len |-> 5000, d |-> 1, blank |-> <<1900, 4100>>]

\* Texts without page breaks, long enough to overrun the budget.
LongKinds ==
  { [len |-> 45000, d |-> 1, blank |-> NoBlank],
    [len |-> 45000, d |-> 0, blank |-> NoBlank] }

ChunkDocs ==
  UNION {[1..k -> PageKinds] : k \in 2..MaxPages}
  \cup {<<k>> : k \in PageKinds \cup LongKinds}
  \cup {<<BlankPage, k>> : k \in PageKinds} \cup {<<k, BlankPage>> : k \in PageKinds}

\* No countable word occurs twice in the pages: at most one page holds
\* countable words, and it is the page of 25 different words.
NoRepeatedKeyword(pages) ==
  /\ Cardinality({i \in 1..Len(pages) : pages[i].d > 0}) <= 1
  /\ \A i \in 1..Len(pages) : pages[i].d > 0 => pages[i].d * pages[i].len <= 2500

\* startPage and endPage of the request; 0 stands for every falsy value
\* (absent, null, 0), which the code does not tell apart.
RangeValues == {-1, 0, 2, 3, MaxPages + 1}

ChunkInit ==
  /\ cpc = "start"
  /\ cVariant \in {"paged", "flat"}
  /\ cDoc \in ChunkDocs
  /\ cVariant = "flat" => Len(cDoc) = 1
  /\ cStart \in RangeValues
  /\ cEnd \in RangeValues
  /\ cPages = <<>>
  /\ cFrom = 0
  /\ cTo = 0
  /\ cPagesToUse = <<>>
  /\ cChunks = <<>>
  /\ cSelected = <<>>
  /\ cFallback = FALSE
  /\ cCardPages = <<>>
  /\ DistractorIdle
  /\ DedupeIdle
  /\ HandlerIdle
  /\ SupportIdle
  /\ QuizIdle
  /\ ReuseIdle

\* const pages = splitIntoPages(content)
SplitPages ==
  /\ cpc = "start"
  /\ cVariant = "paged"
  /\ cPages' = splitIntoPages(cDoc)
  /\ cpc' = "pages"
  /\ UNCHANGED <<cCardPages, cVariant, cDoc, cStart, cEnd, cFrom, cTo, cPagesToUse, cChunks,
                 cSelected, cFallback, dvars, ddvars, hvars, svars, qvars,
                 rvars>>

\* let pagesToUse = pages; if (startPage || endPage) { ... }
NarrowRange ==
  /\ cpc = "pages"
  /\ cFrom' = IF cStart # 0 \/ cEnd # 0 THEN RangeFrom(cStart) ELSE 0
  /\ cTo' = IF cStart # 0 \/ cEnd # 0 THEN RangeTo(cEnd, Len(cPages)) ELSE 0
  /\ cPagesToUse' = PagesToUse(cPages, cStart, cEnd)
  /\ cpc' = "ranged"
  /\ UNCHANGED <<cCardPages, cVariant, cDoc, cStart, cEnd, cPages, cChunks, cSelected,
                 cFallback, dvars, ddvars, hvars, svars, qvars, rvars>>

\* const allChunks = chunkPagesToChunks(pagesToUse, CHUNK_SIZE, CHUNK_OVERLAP)
BuildChunks ==
  /\ cpc = "ranged"
  /\ cChunks' = chunkPagesToChunks(cPagesToUse, CHUNK_SIZE, CHUNK_OVERLAP)
  /\ cpc' = "chunked"
  /\ UNCHANGED <<cCardPages, cVariant, cDoc, cStart, cEnd, cPages, cFrom, cTo, cPagesToUse,
                 cSelected, cFallback, dvars, ddvars, hvars, svars, qvars,
                 rvars>>

\* let scoredChunks = scoreChunksByKeywords(allChunks, topKeywords)
ScoreChunks ==
  /\ cpc = "chunked"
  /\ cVariant = "paged"
  /\ cChunks' = scoreChunksByKeywords(cChunks, HasKeywords(cPagesToUse))
  /\ cpc' = "scored"
  /\ UNCHANGED <<cCardPages, cVariant, cDoc, cStart, cEnd, cPages, cFrom, cTo, cPagesToUse,
                 cSelected, cFallback, dvars, ddvars, hvars, svars, qvars,
                 rvars>>

\* if (totalScore === 0) { fallbackChunks } else { selectTopChunksByChars }
SelectChunks ==
  /\ cpc = "scored"
  /\ cVariant = "paged"
  /\ cFallback' = (TotalScore(cChunks) = 0)
  /\ cSelected' =
       IF TotalScore(cChunks) = 0
       THEN FallbackChunks(FlatLen(cPagesToUse), CHUNK_SIZE, Len(cPagesToUse),
                           TRUE)
       ELSE selectTopChunksByChars(cChunks, MAX_CONTENT_SIZE)
  /\ cpc' = "selected"
  /\ UNCHANGED <<cCardPages, cVariant, cDoc, cStart, cEnd, cPages, cFrom, cTo, cPagesToUse,
                 cChunks, dvars, ddvars, hvars, svars, qvars, rvars>>

\* The version without page tags: the chunks are cut from the whole content,
\* and only the keywords come from the requested pages, taken as stretches
\* of 3000 characters.
FlatKeywordLen(total, startPage, endPage) ==
  IF startPage # 0 \/ endPage # 0
  THEN LET totalEstimatedPages == CeilDiv(total, CHARS_PER_PAGE_ESTIMATE)
           start == MaxOf(0, (OrElse(startPage, 1) - 1) * CHARS_PER_PAGE_ESTIMATE)
           end == MinOf(total,
                        OrElse(endPage, totalEstimatedPages) * CHARS_PER_PAGE_ESTIMATE)
       IN SubstringLen(total, start, end)
  ELSE total

\* const allChunks = chunkTextByChars(content, CHUNK_SIZE, OVERLAP)
FlatBuildChunks ==
  /\ cpc = "start"
  /\ cVariant = "flat"
  /\ cChunks' = [i \in 1..Len(Windows(0, cDoc[1].len, CHUNK_SIZE, CHUNK_OVERLAP)) |->
                   [PageChunks([no |-> 0, len |-> cDoc[1].len, d |-> cDoc[1].d,
                                blank |-> NoBlank],
                               0, 0, 0, CHUNK_SIZE, CHUNK_OVERLAP)[i]
                    EXCEPT !.page_from = NullPage, !.page_to = NullPage]]
  /\ cpc' = "chunked"
  /\ UNCHANGED <<cCardPages, cVariant, cDoc, cStart, cEnd, cPages, cFrom, cTo, cPagesToUse,
                 cSelected, cFallback, dvars, ddvars, hvars, svars, qvars,
                 rvars>>

\* scoreChunksByKeywords(allChunks, topKeywords), topKeywords drawn from
\* contentForKeywords
FlatScoreChunks ==
  /\ cpc = "chunked"
  /\ cVariant = "flat"
  /\ cChunks' = scoreChunksByKeywords(cChunks,
                  cDoc[1].d > 0 /\ FlatKeywordLen(cDoc[1].len, cStart, cEnd) > 0)
  /\ cpc' = "scored"
  /\ UNCHANGED <<cCardPages, cVariant, cDoc, cStart, cEnd, cPages, cFrom, cTo, cPagesToUse,
                 cSelected, cFallback, dvars, ddvars, hvars, svars, qvars,
                 rvars>>

\* if (totalScore === 0) { fallback } else { selectTopChunks }
FlatSelectChunks ==
  /\ cpc = "scored"
  /\ cVariant = "flat"
  /\ cFallback' = (TotalScore(cChunks) = 0)
  /\ cSelected' =
       IF TotalScore(cChunks) = 0
       THEN FallbackChunks(cDoc[1].len, FLAT_FALLBACK_SIZE, 0, FALSE)
       ELSE selectTopChunksByChars(cChunks, MAX_CONTENT_SIZE)
  /\ cpc' = "selected"
  /\ UNCHANGED <<cCardPages, cVariant, cDoc, cStart, cEnd, cPages, cFrom, cTo, cPagesToUse,
                 cChunks, dvars, ddvars, hvars, svars, qvars, rvars>>

\* The page range of one validated card: the loop over selectedChunks finds
\* a best chunk or none, and indexOf finds the answer or not.  A chunk can
\* be the best one only if it shares a token with the card, so only if its
\* text is not empty.
CardPositions(total) ==
  {-1} \cup {pos \in {0, CHARS_PER_PAGE_ESTIMATE - 1, CHARS_PER_PAGE_ESTIMATE,
                       total - 1} : pos >= 0 /\ pos < total}

MapCard ==
  /\ cpc = "selected"
  /\ cVariant = "paged"
  /\ cCardPages' \in
       {MappedPages(cSelected, bestIdx, pos) :
          bestIdx \in {0} \cup {i \in 1..Len(cSelected) : cSelected[i].len > 0},
          pos \in CardPositions(SumLen(cDoc) + Len(cDoc) - 1)}
  /\ cpc' = "mapped"
  /\ UNCHANGED <<cVariant, cDoc, cStart, cEnd, cPages, cFrom, cTo, cPagesToUse,
                 cChunks, cSelected, cFallback, dvars, ddvars, hvars, svars,
                 qvars, rvars>>

ChunkNext ==
  \/ SplitPages
  \/ NarrowRange
  \/ BuildChunks
  \/ ScoreChunks
  \/ SelectChunks
  \/ FlatBuildChunks
  \/ FlatScoreChunks
  \/ FlatSelectChunks
  \/ MapCard

SpecChunk == ChunkInit /\ [][ChunkNext]_vars

\* ------------------------------------------ inputs of computeSupportScore
\* Question and answer texts: a missing field, plain words, re-cased and
\* punctuated words, no token of 3 characters, a short token next to a long
\* one, a repeated token, tokens that are only substrings of source words or
\* absent from every source.
SupportTexts ==
  { <<>>,
    <<"cell", "makes">>,
    <<"Cell", WS, "ATP.">>,
    <<"is", "--">>,
    <<"is", "power">>,
    <<"atp", "atp", "energy">>,
    <<"ell", "zzz", "power">> }

SupportSources ==
  { <<>>,
    <<"cell", "energy", "power", "is">>,
    <<"Cell", WS, "ATP.">>,
    <<"atp", "makes", "ell">> }

SupportInit ==
  /\ spc = "start"
  /\ sVariant \in {"paged", "flat"}
  /\ sCard \in [question : SupportTexts, answer : SupportTexts]
  /\ sSource \in SupportSources
  /\ sScore = <<0, 1>>
  /\ DistractorIdle
  /\ DedupeIdle
  /\ ChunkIdle
  /\ HandlerIdle
  /\ QuizIdle
  /\ ReuseIdle

ComputeSupport ==
  /\ spc = "start"
  /\ sVariant = "paged"
  /\ sScore' = computeSupportScore(sCard, sSource)
  /\ spc' = "done"
  /\ UNCHANGED <<sVariant, sCard, sSource, dvars, ddvars, cvars, hvars, qvars, rvars>>

\* computeSupportScore of the version without page tags.
FlatComputeSupport ==
  /\ spc = "start"
  /\ sVariant = "flat"
  /\ sScore' = FlatComputeSupportScore(sCard, sSource)
  /\ spc' = "done"
  /\ UNCHANGED <<sVariant, sCard, sSource, dvars, ddvars, cvars, hvars, qvars, rvars>>

SupportNext == ComputeSupport \/ FlatComputeSupport

SpecSupport == SupportInit /\ [][SupportNext]_vars

\* ------------------------------------------- the generate-flashcards handler
\* The cards the generative model may return: [question, answer, difficulty].
GeneratedCards ==
  { [question |-> <<"cell", "makes">>, answer |-> <<"atp">>,
     difficulty |-> "easy"],
    [question |-> <<"cell", "makes">>, answer |-> <<"atp", "energy">>,
     difficulty |-> "medium"],
    [question |-> <<"zzz">>, answer |-> <<"--">>, difficulty |-> ""],
    [question |-> <<"ell">>, answer |-> <<"is">>, difficulty |-> "easy"] }

\* Ten cards of which the first three are supported by either content.
TenCardsThreeSupported ==
  [i \in 1..10 |->
     CASE i = 1 -> [question |-> <<"cell", "makes">>, answer |-> <<"atp">>,
                    difficulty |-> "easy"]
       [] i = 2 -> [question |-> <<"cell", "makes", "power">>,
                    answer |-> <<"atp", "energy">>, difficulty |-> "hard"]
       [] i = 3 -> [question |-> <<"ell">>, answer |-> <<"is">>,
                    difficulty |-> "easy"]
       [] OTHER -> [question |-> <<"zzz">>, answer |-> <<"--">>,
                    difficulty |-> ""]]

Batches ==
  (SeqsUpTo(GeneratedCards, MaxBatch) \ {<<>>}) \cup {TenCardsThreeSupported}

\* What one call of callGenerateFlashcards can come back with.
AiResponses ==
  {[kind |-> k, flashcards |-> <<>>] :
     k \in {"http_error", "no_tool_call", "bad_json", "no_flashcards"}}
  \cup {[kind |-> "ok", flashcards |-> b] : b \in Batches}

\* The texts extraction can produce: words and length in characters.
LongText1 == [words |-> <<"cell", "energy", "power", "is">>, len |-> 120]
LongText2 == [words |-> <<"Cell", WS, "ATP.">>, len |-> 100]
ShortText1 == [words |-> <<"cell">>, len |-> 50]
ShortText2 == [words |-> <<"cell", "atp">>, len |-> 99]

\* The reply to the documents query: an error, no row, or a row with its
\* cached content.
DocumentLookups ==
  {[result |-> "error", content |-> EmptyText],
   [result |-> "none", content |-> EmptyText]}
  \cup {[result |-> "row", content |-> t] :
          t \in {EmptyText, ShortText1, LongText1}}

\* The reply to the storage download: an error, or a file with what
\* isBinaryContentFromBuffer says of it and the text extractTextFromPDF or
\* cleanTextContent gets out of it.
Downloads ==
  {[error |-> TRUE, looksBinary |-> FALSE, text |-> EmptyText]}
  \cup {[error |-> FALSE, looksBinary |-> b, text |-> t] :
          b \in BOOLEAN, t \in {EmptyText, ShortText1, LongText1, LongText2}}

\* What callExternalOCR returns ('' on any failure).
OcrTexts == {EmptyText, ShortText1, ShortText2, LongText2}

ErrorResponse(msg) ==
  [status |-> 500, body |-> "error", error |-> msg, count |-> 0,
   flashcards |-> <<>>, usedOcr |-> FALSE]

\* The chunks of the prompt with their words: the contents above are shorter
\* than one page and one chunk and hold keywords, so the selection is the one
\* chunk of page 1 with the whole text.
SelectedChunks(content) ==
  <<[page_from |-> 1, page_to |-> 1, words |-> content.words]>>

CallError(kind) ==
  CASE kind = "http_error" -> "AI Gateway error"
    [] kind = "no_tool_call" ->
         "No flashcards generated - AI did not return expected format"
    [] kind = "bad_json" -> "Failed to parse flashcard data from AI"
    [] kind = "no_flashcards" ->
         "AI failed to generate flashcards. Please try again."
    [] OTHER -> ""

Init ==
  /\ hpc = "start"
  /\ hMethod \in {"OPTIONS", "POST"}
  /\ hInput = [auth |-> "", doc |-> ""]
  /\ hContent = EmptyText
  /\ hUsedOcr = FALSE
  /\ hDownloads = 0
  /\ hOcrCalls = 0
  /\ hCalls = <<>>
  /\ hFlashcards = <<>>
  /\ hValidated = <<>>
  /\ hSupportRate = Frac(0, 1)
  /\ hFirstEval = [total |-> 0, supported |-> 0]
  /\ hDeduped = <<>>
  /\ hSets = <<>>
  /\ hRows = <<>>
  /\ hResponse = NoResponse
  /\ DistractorIdle
  /\ DedupeIdle
  /\ ChunkIdle
  /\ SupportIdle
  /\ QuizIdle
  /\ ReuseIdle

\* catch (error) { return new Response({ error }, { status: 500 }) }; the
\* errors of the database and storage clients are no Error objects and are
\* reported as 'Unknown error occurred'.
Fail(msg) ==
  /\ hpc' = "done"
  /\ hResponse' = ErrorResponse(msg)

\* if (req.method === 'OPTIONS') return new Response(null, ...)
Preflight ==
  /\ hpc = "start"
  /\ hMethod = "OPTIONS"
  /\ hpc' = "done"
  /\ hResponse' = [NoResponse EXCEPT !.status = 200, !.body = "null"]
  /\ UNCHANGED <<hMethod, hInput, hContent, hUsedOcr, hDownloads, hOcrCalls, hCalls,
                 hFlashcards, hValidated, hSupportRate, hFirstEval, hDeduped,
                 hSets, hRows, dvars, ddvars, cvars, svars, qvars, rvars>>

\* A slip that tests the header only.
AuthFailureHeaderOnly(auth) ==
  IF auth = "no_header" THEN "No authorization header" ELSE ""

\* if (!authHeader) throw ...; if (userError || !user) throw ...
AuthFailure(auth) ==
  CASE auth = "no_header" -> "No authorization header"
    [] auth = "no_user" -> "User not authenticated"
    [] OTHER -> ""

\* if (docError) throw docError; if (!document) throw ...
LookupFailure(result) ==
  CASE result = "error" -> "Unknown error occurred"
    [] result = "none" -> "Document not found"
    [] OTHER -> ""

\* if (!content || content.length < 100), before the download
NeedsExtraction(content) == content.len < 100

\* A slip that rejects an empty text only.
UnreadableWhenEmpty(content) == content.len = 0

\* if (!content || content.length < 100), after extraction
Unreadable(content) == content.len < 100

\* The Authorization header and the reply of auth.getUser.
Authenticate ==
  /\ hpc = "start"
  /\ hMethod = "POST"
  /\ \E auth \in {"no_header", "no_user", "user"} :
       /\ hInput' = [hInput EXCEPT !.auth = auth]
       /\ IF AuthFailure(auth) # ""
          THEN Fail(AuthFailure(auth))
          ELSE hpc' = "lookup" /\ UNCHANGED hResponse
  /\ UNCHANGED <<hMethod, hContent, hUsedOcr, hDownloads, hOcrCalls, hCalls,
                 hFlashcards, hValidated, hSupportRate, hFirstEval, hDeduped,
                 hSets, hRows, dvars, ddvars, cvars, svars, qvars, rvars>>

\* From the end of extraction to the first generation call: the length
\* check, the LOVABLE_API_KEY check, the first call issued.
BeginGeneration(content, usedOcr, apiKey) ==
  /\ hContent' = content
  /\ hUsedOcr' = usedOcr
  /\ IF Unreadable(content)
     THEN /\ Fail("Document appears to be empty or unreadable.")
          /\ UNCHANGED hCalls
     ELSE IF ~apiKey
     THEN /\ Fail("LOVABLE_API_KEY not configured")
          /\ UNCHANGED hCalls
     ELSE /\ hpc' = "call1"
          /\ hCalls' = <<[instruction |-> "", outcome |-> "pending"]>>
          /\ UNCHANGED hResponse

\* The reply of the documents query.
LookupDocument ==
  /\ hpc = "lookup"
  /\ \E doc \in DocumentLookups, apiKey \in BOOLEAN :
       /\ hInput' = [hInput EXCEPT !.doc = doc.result]
       /\ IF LookupFailure(doc.result) # ""
          THEN /\ Fail(LookupFailure(doc.result))
               /\ UNCHANGED <<hContent, hUsedOcr, hDownloads, hCalls>>
          ELSE IF NeedsExtraction(doc.content)
          THEN /\ hpc' = "download"
               /\ hContent' = doc.content
               /\ hDownloads' = hDownloads + 1
               /\ UNCHANGED <<hUsedOcr, hCalls, hResponse>>
          ELSE /\ BeginGeneration(doc.content, FALSE, apiKey)
               /\ UNCHANGED hDownloads
  /\ UNCHANGED <<hMethod, hOcrCalls, hFlashcards, hValidated, hSupportRate,
                 hFirstEval, hDeduped, hSets, hRows, dvars, ddvars, cvars, svars, qvars,
                 rvars>>

\* The reply of the storage download.
Download ==
  /\ hpc = "download"
  /\ \E file \in Downloads, ocrConfigured \in BOOLEAN, apiKey \in BOOLEAN :
       IF file.error
       THEN /\ Fail("Unknown error occurred")
            /\ UNCHANGED <<hContent, hUsedOcr, hOcrCalls, hCalls>>
       ELSE IF file.looksBinary /\ NeedsExtraction(file.text)
       THEN IF ocrConfigured
            THEN /\ hpc' = "ocr"
                 /\ hContent' = file.text
                 /\ hOcrCalls' = hOcrCalls + 1
                 /\ UNCHANGED <<hUsedOcr, hCalls, hResponse>>
            ELSE /\ Fail("Could not extract selectable text from this PDF (likely scanned). Enable OCR or upload a text-based document.")
                 /\ hContent' = file.text
                 /\ UNCHANGED <<hUsedOcr, hOcrCalls, hCalls>>
       ELSE /\ BeginGeneration(file.text, FALSE, apiKey)
            /\ UNCHANGED hOcrCalls
  /\ UNCHANGED <<hMethod, hInput, hDownloads, hFlashcards, hValidated, hSupportRate,
                 hFirstEval, hDeduped, hSets, hRows, dvars, ddvars, cvars, svars, qvars,
                 rvars>>

\* The reply of callExternalOCR.
Ocr ==
  /\ hpc = "ocr"
  /\ \E ocrText \in OcrTexts, apiKey \in BOOLEAN :
       IF ocrText.len > 0 /\ ocrText.len > hContent.len
       THEN BeginGeneration(ocrText, TRUE, apiKey)
       ELSE BeginGeneration(hContent, FALSE, apiKey)
  /\ UNCHANGED <<hMethod, hInput, hDownloads, hOcrCalls, hFlashcards, hValidated,
                 hSupportRate, hFirstEval, hDeduped, hSets, hRows, dvars,
                 ddvars, cvars, svars, qvars, rvars>>

\* From the acceptance check to the insert into flashcard_sets.
Accept(v) ==
  IF Rejected(v.supportRate, v.validated)
  THEN /\ Fail("AI-generated flashcards were not sufficiently supported by the document text.")
       /\ UNCHANGED hDeduped
  ELSE LET scored == [i \in 1..Len(v.validated) |->
                        WithConfidenceAndPages(v.validated[i], hContent,
                                               SelectedChunks(hContent))]
           deduped == dedupeCards(scored, DEDUPE_JACCARD_THRESHOLD)
       IN IF Len(deduped) = 0
          THEN /\ Fail("All generated flashcards were filtered out as duplicates or unsupported.")
               /\ UNCHANGED hDeduped
          ELSE /\ hpc' = "insert_set"
               /\ hDeduped' = deduped
               /\ UNCHANGED hResponse

\* The reply of the first generation call.
Generate1 ==
  /\ hpc = "call1"
  /\ \E resp \in AiResponses :
       IF resp.kind # "ok"
       THEN /\ hCalls' = [hCalls EXCEPT ![1].outcome = resp.kind]
            /\ Fail(CallError(resp.kind))
            /\ UNCHANGED <<hFlashcards, hValidated, hSupportRate, hFirstEval,
                           hDeduped>>
       ELSE LET v == validateFlashcards(resp.flashcards, hContent.words)
            IN /\ hFlashcards' = [i \in 1..Len(resp.flashcards) |->
                                    WithDifficulty(resp.flashcards[i])]
               /\ hValidated' = v.validated
               /\ hSupportRate' = v.supportRate
               /\ hFirstEval' = [total |-> Len(resp.flashcards),
                                 supported |-> Len(v.validated)]
               /\ IF NeedsRetry(v.supportRate)
                  THEN /\ hCalls' = <<[instruction |-> "", outcome |-> "ok"],
                                      [instruction |-> "stricter",
                                       outcome |-> "pending"]>>
                       /\ hpc' = "call2"
                       /\ UNCHANGED <<hDeduped, hResponse>>
                  ELSE /\ hCalls' = [hCalls EXCEPT ![1].outcome = "ok"]
                       /\ Accept(v)
  /\ UNCHANGED <<hMethod, hInput, hContent, hUsedOcr, hDownloads, hOcrCalls, hSets,
                 hRows, dvars, ddvars, cvars, svars, qvars, rvars>>

\* A slip that keeps the first batch when it is the better supported one.
RetryKeepsBetter(first, retry) ==
  IF FGt(first.supportRate, retry.supportRate) THEN first ELSE retry

\* ({ validated, supportRate } = validateFlashcards(flashcards, content)):
\* what the first evaluation left is overwritten.
RetryResult(first, retry) == retry

\* The reply of the second generation call.
Generate2 ==
  /\ hpc = "call2"
  /\ \E resp \in AiResponses :
       IF resp.kind # "ok"
       THEN /\ hCalls' = [hCalls EXCEPT ![2].outcome = resp.kind]
            /\ Fail(CallError(resp.kind))
            /\ UNCHANGED <<hFlashcards, hValidated, hSupportRate, hDeduped>>
       ELSE LET v == RetryResult([validated |-> hValidated,
                                  supportRate |-> hSupportRate],
                                 validateFlashcards(resp.flashcards,
                                                    hContent.words))
            IN /\ hFlashcards' = [i \in 1..Len(resp.flashcards) |->
                                    WithDifficulty(resp.flashcards[i])]
               /\ hValidated' = v.validated
               /\ hSupportRate' = v.supportRate
               /\ hCalls' = [hCalls EXCEPT ![2].outcome = "ok"]
               /\ Accept(v)
  /\ UNCHANGED <<hMethod, hInput, hContent, hUsedOcr, hDownloads, hOcrCalls,
                 hFirstEval, hSets, hRows, dvars, ddvars, cvars, svars, qvars,
                 rvars>>

\* The reply of the insert into flashcard_sets.
InsertSet ==
  /\ hpc = "insert_set"
  /\ \E setError \in BOOLEAN :
       IF setError
       THEN /\ Fail("Unknown error occurred")
            /\ UNCHANGED hSets
       ELSE /\ hSets' = Append(hSets, [id |-> Len(hSets) + 1,
                                       card_count |-> Len(hDeduped)])
            /\ hpc' = "insert_cards"
            /\ UNCHANGED hResponse
  /\ UNCHANGED <<hMethod, hInput, hContent, hUsedOcr, hDownloads, hOcrCalls, hCalls,
                 hFlashcards, hValidated, hSupportRate, hFirstEval, hDeduped,
                 hRows, dvars, ddvars, cvars, svars, qvars, rvars>>

\* A variant that deletes the set row when the insert of its cards fails.
InsertCardsRollsBack ==
  /\ hpc = "insert_cards"
  /\ \E insertError \in BOOLEAN :
       IF insertError
       THEN /\ Fail("Unknown error occurred")
            /\ hSets' = SubSeq(hSets, 1, Len(hSets) - 1)
            /\ UNCHANGED hRows
       ELSE /\ hRows' = hRows \o flashcardsToInsert(hDeduped, Len(hSets))
            /\ hpc' = "done"
            /\ hResponse' = [status |-> 200, body |-> "success", error |-> "",
                             count |-> Len(flashcardsToInsert(hDeduped, Len(hSets))),
                             flashcards |-> responseCards(hDeduped),
                             usedOcr |-> hUsedOcr]
            /\ UNCHANGED hSets
  /\ UNCHANGED <<hMethod, hInput, hContent, hUsedOcr, hDownloads, hOcrCalls,
                 hCalls, hFlashcards, hValidated, hSupportRate, hFirstEval,
                 hDeduped, dvars, ddvars, cvars, svars, qvars, rvars>>

\* The reply of the insert into flashcards, and the response.
InsertCards ==
  /\ hpc = "insert_cards"
  /\ \E insertError \in BOOLEAN :
       IF insertError
       THEN /\ Fail("Unknown error occurred")
            /\ UNCHANGED hRows
       ELSE /\ hRows' = hRows \o flashcardsToInsert(hDeduped, Len(hSets))
            /\ hpc' = "done"
            /\ hResponse' = [status |-> 200, body |-> "success", error |-> "",
                             count |-> Len(flashcardsToInsert(hDeduped, Len(hSets))),
                             flashcards |-> responseCards(hDeduped),
                             usedOcr |-> hUsedOcr]
  /\ UNCHANGED <<hMethod, hInput, hContent, hUsedOcr, hDownloads, hOcrCalls, hCalls,
                 hFlashcards, hValidated, hSupportRate, hFirstEval, hDeduped,
                 hSets, dvars, ddvars, cvars, svars, qvars, rvars>>

Next ==
  \/ Preflight
  \/ Authenticate
  \/ LookupDocument
  \/ Download
  \/ Ocr
  \/ Generate1
  \/ Generate2
  \/ InsertSet
  \/ InsertCards

Spec == Init /\ [][Next]_vars

\* ------------------------------------------------ the generate-quiz handler
\* The values Math.random() takes.
Randoms == {Frac(0, 1), Frac(9, 10)}

Swap(arr, i, j) == [arr EXCEPT ![i] = arr[j], ![j] = arr[i]]

\* The loop of shuffle from (0-based) index i down to 1, rs[i] the value
\* Math.random() returns at index i.
RECURSIVE ShuffleFrom(_, _, _)
ShuffleFrom(arr, i, rs) ==
  IF i <= 0 THEN arr
  ELSE LET j == (rs[i][1] * (i + 1)) \div rs[i][2]
       IN ShuffleFrom(Swap(arr, i + 1, j + 1), i - 1, rs)

\* The arrays shuffle(arr) can leave.
shuffle(arr) ==
  {ShuffleFrom(arr, Len(arr) - 1, rs) : rs \in [1..(Len(arr) - 1) -> Randoms]}

\* s.trim().split(/\s+/).filter(Boolean).length
wordCount(s) == Len(SelectSeq(s, LAMBDA w : w # WS))

\* w.length of a raw word.
RawLen(w) ==
  CASE w = WS -> 1
    [] w \in {"ATP.", "atp."} -> 4
    [] w = "--" -> 2
    [] w = "|||" -> 3
    [] OTHER -> TokLen(LowerWord(w))

\* s.length: the raw words and one blank between two of them.
RECURSIVE StrLen(_)
StrLen(text) ==
  IF text = <<>> THEN 0
  ELSE RawLen(Head(text)) + (IF Len(text) > 1 THEN 1 ELSE 0) + StrLen(Tail(text))

\* The raw words after which /(?<=[.?!])\s+/ splits.
EndsSentence(w) == w \in {"ATP.", "atp."}

RECURSIVE SplitSentences(_, _)
SplitSentences(text, cur) ==
  IF text = <<>> THEN (IF cur = <<>> THEN <<>> ELSE <<cur>>)
  ELSE IF EndsSentence(Head(text))
  THEN <<Append(cur, Head(text))>> \o SplitSentences(Tail(text), <<>>)
  ELSE SplitSentences(Tail(text), Append(cur, Head(text)))

extractSentences(text) ==
  LET parts == SplitSentences(text, <<>>)
      trimmed == [i \in 1..Len(parts) |-> Trim(parts[i])]
  IN SelectSeq(trimmed, LAMBDA p : /\ p # <<>>
                                   /\ wordCount(p) >= 3
                                   /\ wordCount(p) <= 50)

\* hay.includes(needle) for texts: no text of the model has a raw word that
\* continues into the next one.
ContainsText(hay, needle) ==
  \E k \in 0..(Len(hay) - Len(needle)) :
    SubSeq(hay, k + 1, k + Len(needle)) = needle

\* correct.toLowerCase().slice(0, Math.min(30, correct.length)): whole raw
\* words, as many as fit in 30 characters.
RECURSIVE Slice30(_, _)
Slice30(text, n) ==
  IF n = 0 \/ StrLen(SubSeq(text, 1, n)) <= 30 THEN SubSeq(text, 1, n)
  ELSE Slice30(text, n - 1)

FAbs(a) == IF a[1] < 0 THEN <<0 - a[1], a[2]>> ELSE a

\* Array.from(new Set(list)): the first occurrence of each element.
RECURSIVE Uniq(_, _)
Uniq(list, seen) ==
  IF list = <<>> THEN seen
  ELSE IF \E i \in 1..Len(seen) : seen[i] = Head(list)
  THEN Uniq(Tail(list), seen)
  ELSE Uniq(Tail(list), Append(seen, Head(list)))

\* The ranking score of pickBestDistractors.
DistractorScore(c, correctAnswer, source) ==
  LET sim == computeJaccard(c, correctAnswer)
      support == computeSupportScoreOfText(c, source)
      closeness == Reduce(FMax(Frac(0, 1),
                               FSub(Frac(6, 10),
                                    FAbs(FSub(sim, Frac(35, 100))))))
  IN Reduce(FAdd(Reduce(FMul(closeness, Frac(7, 10))),
                 Reduce(FMul(FSub(Frac(1, 1), support), Frac(3, 10)))))

\* scored.sort((a, b) => b.score - a.score): stable, highest first.
RECURSIVE InsertScored(_, _)
InsertScored(sorted, x) ==
  IF sorted = <<>> THEN <<x>>
  ELSE IF FGe(Head(sorted).score, x.score)
  THEN <<Head(sorted)>> \o InsertScored(Tail(sorted), x)
  ELSE <<x>> \o sorted

RECURSIVE SortScored(_)
SortScored(list) ==
  IF list = <<>> THEN <<>>
  ELSE InsertScored(SortScored(SubSeq(list, 1, Len(list) - 1)), list[Len(list)])

pickBestDistractors(correctAnswer, candidates, source, needed) ==
  LET trimmed == [i \in 1..Len(candidates) |-> Trim(candidates[i])]
      uniq == Uniq(SelectSeq(trimmed, LAMBDA c : c # <<>>), <<>>)
      scored == SelectSeq([i \in 1..Len(uniq) |->
                             [c |-> uniq[i],
                              score |-> DistractorScore(uniq[i], correctAnswer,
                                                        source)]],
                          LAMBDA x : isValidDistractor(x.c, correctAnswer, source))
      sorted == SortScored(scored)
  IN [i \in 1..MinOf(needed, Len(sorted)) |-> sorted[i].c]

\* A JSON object: the keys it has and their values (Undefined for a key it
\* lacks).
AllKeys == {"question", "options", "correctIndex", "explanation"}

\* JSON.stringify of a Promise: it has no enumerable property of its own.
EmptyObject ==
  [keys |-> {}, question |-> Undefined, options |-> Undefined,
   correctIndex |-> Undefined, explanation |-> Undefined]

\* card.page_from && card.page_to ? `See pages ...` : ''
Explanation(card) ==
  IF card.page_from = NullPage \/ card.page_from = 0
     \/ card.page_to = NullPage \/ card.page_to = 0
  THEN <<>>
  ELSE IF card.page_to # card.page_from
  THEN <<card.page_from, card.page_to>>
  ELSE <<card.page_from>>

\* The candidates buildMCQFromCard collects: the other cards' answers, then
\* the sentences of the document.
RECURSIVE AnswerCandidates(_, _)
AnswerCandidates(otherAnswers, correct) ==
  IF otherAnswers = <<>> THEN <<>>
  ELSE LET a == Head(otherAnswers)
           rest == AnswerCandidates(Tail(otherAnswers), correct)
       IN IF a = <<>> THEN rest
          ELSE IF ToLower(Trim(a)) = ToLower(Trim(correct)) THEN rest
          ELSE <<Trim(a)>> \o rest

SentenceCandidates(rawSentences, correct) ==
  SelectSeq(rawSentences,
            LAMBDA s : /\ StrLen(s) >= 20
                       /\ ~(/\ correct # <<>>
                            /\ ContainsText(ToLower(s),
                                            Slice30(ToLower(correct),
                                                    Len(correct)))))

\* pickBestDistractors on the candidate and the sentences of the source, as
\* buildMCQFromCard collects them.
PickDistractors ==
  /\ dpc = "done"
  /\ dChosen' = pickBestDistractors(dCorrect,
                   <<dCandidate>>
                     \o SentenceCandidates(extractSentences(dSource), dCorrect),
                   dSource, 3)
  /\ dpc' = "picked"
  /\ UNCHANGED <<dCandidate, dCorrect, dSource, dResult, ddvars, cvars, hvars, svars, qvars, rvars>>

DistractorNext == CheckDistractor \/ PickDistractors

SpecDistractor == DistractorInit /\ [][DistractorNext]_vars

\* buildMCQFromCard up to `const distractors = pickBestDistractors(...)`
LocalDistractors(card, otherAnswers, sourceText, rawSentences) ==
  pickBestDistractors(card.answer,
                      AnswerCandidates(otherAnswers, card.answer)
                        \o SentenceCandidates(rawSentences, card.answer),
                      sourceText, 3)

\* for (const d of aiDistractors) { if (isValidDistractor(...)) push; if
\* (distractors.length >= 3) break; }
RECURSIVE AddAiDistractors(_, _, _, _)
AddAiDistractors(distractors, aiDistractors, correct, sourceText) ==
  IF aiDistractors = <<>> THEN distractors
  ELSE LET d == Head(aiDistractors)
           next == IF isValidDistractor(d, correct, sourceText)
                   THEN Append(distractors, d) ELSE distractors
       IN IF Len(next) >= 3 THEN next
          ELSE AddAiDistractors(next, Tail(aiDistractors), correct, sourceText)

\* options.findIndex(o => o === correct), 0-based, -1 when there is none
FindIndex(options, correct) ==
  IF \E i \in 1..Len(options) : options[i] = correct
  THEN Min({i \in 1..Len(options) : options[i] = correct}) - 1
  ELSE -1

\* The end of buildMCQFromCard: the values it can return, <<>> for null and
\* <<mcq>> for an object, one per outcome of shuffle.
MCQResults(card, distractors) ==
  IF Len(distractors) < 3 THEN {<<>>}
  ELSE {<<[keys |-> AllKeys,
           question |-> card.question,
           options |-> options,
           correctIndex |-> FindIndex(options, card.answer),
           explanation |-> Explanation(card)]>> :
          options \in shuffle(<<card.answer>> \o SubSeq(distractors, 1, 3))}

\* The promises one call of buildMCQFromCard can return: pending at the
\* await of callAIGenerateDistractors, whose request it has sent, or else
\* already fulfilled.
StartMCQ(card, otherAnswers, sourceText, rawSentences) ==
  LET distractors == LocalDistractors(card, otherAnswers, sourceText,
                                      rawSentences)
  IN IF Len(distractors) < 3
     THEN {[card |-> card, distractors |-> distractors, state |-> "pending",
            value |-> <<>>]}
     ELSE {[card |-> card, distractors |-> distractors, state |-> "fulfilled",
            value |-> v] : v \in MCQResults(card, distractors)}

OtherAnswers(validatedCards, card) ==
  LET others == SelectSeq(validatedCards, LAMBDA c : c.id # card.id)
  IN [i \in 1..Len(others) |-> others[i].answer]

\* The loop over pool from a given length of `questions`: the lists of
\* `questions` it can leave. What buildMCQFromCard returns is a promise,
\* which is truthy, and the loop pushes it.
RECURSIVE QuestionLists(_, _, _, _, _, _)
QuestionLists(pool, questions, validatedCards, count, sourceText, rawSentences) ==
  IF pool = <<>> THEN {questions}
  ELSE UNION {IF Len(questions) + 1 >= count
              THEN {Append(questions, mcq)}
              ELSE QuestionLists(Tail(pool), Append(questions, mcq),
                                 validatedCards, count, sourceText,
                                 rawSentences) :
                mcq \in StartMCQ(Head(pool),
                                 OtherAnswers(validatedCards, Head(pool)),
                                 sourceText, rawSentences)}

\* JSON.stringify(questions) in the body of the insert.
Serialise(questions) == [i \in 1..Len(questions) |-> EmptyObject]

\* it.options?.[it.correctIndex], then `correct || ''`
CorrectOption(it) ==
  IF /\ "options" \in it.keys
     /\ "correctIndex" \in it.keys
     /\ it.correctIndex \in 0..(Len(it.options) - 1)
  THEN it.options[it.correctIndex + 1]
  ELSE <<>>

\* text.toLowerCase().split(/\s+/).filter(w => w.length > 4)
KeyWords(text) ==
  SelectSeq(ToLower(text), LAMBDA w : w # WS /\ RawLen(w) > 4)

\* words.some(w => sourceTextLower.includes(w))
SomeInSource(words, sourceText) ==
  \E i \in 1..Len(words) : Includes(ToLower(sourceText), words[i])

validateQuizItems(items, sourceText) ==
  SelectSeq(items,
            LAMBDA it :
              \/ SomeInSource(KeyWords(IF "question" \in it.keys
                                       THEN it.question ELSE <<>>), sourceText)
              \/ SomeInSource(KeyWords(CorrectOption(it)), sourceText))

\* ------------------------------------------- inputs of the quiz handler
QuizSource ==
  <<"cell", "makes", "ATP.", "energy", "makes", "power", "is", "ATP.">>

QuizLongText == [words |-> QuizSource, len |-> 120]
QuizShortText == [words |-> <<"cell">>, len |-> 50]

QuizCard(id, q, a, from, to) ==
  [id |-> id, question |-> q, answer |-> a, page_from |-> from, page_to |-> to]

\* Four cards of which the first finds three distractors among the other
\* answers, the second two, the others none.
FourCards ==
  <<QuizCard(1, <<"cell", "makes">>, <<"cell", "makes", "atp">>, 1, 2),
    QuizCard(2, <<"cell", "heat">>, <<"cell", "makes", "heat">>, 2, 2),
    QuizCard(3, <<"light">>, <<"cell", "light">>, NullPage, NullPage),
    QuizCard(4, <<"water">>, <<"atp", "water">>, 1, NullPage)>>

\* The replies of the flashcards query: an error, no array, lists of cards.
CardLookups ==
  {[error |-> TRUE, data |-> <<>>],
   [error |-> FALSE, data |-> <<>>],
   [error |-> FALSE, data |-> SubSeq(FourCards, 1, 2)],
   [error |-> FALSE, data |-> FourCards]}

QuizDocumentLookups ==
  {[result |-> "error", content |-> EmptyText],
   [result |-> "none", content |-> EmptyText],
   [result |-> "found", content |-> EmptyText],
   [result |-> "found", content |-> QuizLongText]}

\* The replies of the storage download: an error, a PDF, a text file.
QuizDownloads ==
  {[error |-> TRUE, isPDF |-> FALSE, text |-> EmptyText],
   [error |-> FALSE, isPDF |-> TRUE, text |-> EmptyText],
   [error |-> FALSE, isPDF |-> FALSE, text |-> QuizShortText],
   [error |-> FALSE, isPDF |-> FALSE, text |-> QuizLongText]}

\* The replies of the extraction request.
Extractions ==
  {[ok |-> FALSE, text |-> EmptyText],
   [ok |-> TRUE, text |-> EmptyText],
   [ok |-> TRUE, text |-> QuizLongText]}

\* What callAIGenerateDistractors returns: [] after any failure, or the
\* strings of the reply.
AiDistractorReplies ==
  {<<>>,
   <<<<"cell", "makes", "atp">>, <<"zzz">>>>,
   <<<<"cell", "zzz", "heat">>, <<"atp", "zzz", "heat">>,
     <<"makes", "sugar", "oxygen">>>>}

QuizItem(q, options, correctIndex) ==
  [keys |-> AllKeys, question |-> q, options |-> options,
   correctIndex |-> correctIndex, explanation |-> <<>>]

FourOptions ==
  <<<<"cell", "light">>, <<"energy", "makes", "power">>, <<"zzz">>,
    <<"atp", "water">>>>

GoodItem == QuizItem(<<"cell", "makes">>, FourOptions, 1)
ThreeOptionsItem == QuizItem(<<"energy", "is">>, SubSeq(FourOptions, 1, 3), 0)
OutOfRangeItem == QuizItem(<<"power", "is">>, FourOptions, 7)
UnsupportedItem == QuizItem(<<"zzz", "heat">>, FourOptions, 0)
ShortWordItem == QuizItem(<<"Cell", "is">>, FourOptions, 0)

\* The replies of callAIGenerateQuiz.
QuizAiResponses ==
  {[kind |-> "http_error", questions |-> <<>>],
   [kind |-> "no_tool_call", questions |-> <<>>],
   [kind |-> "bad_json", questions |-> <<>>],
   [kind |-> "empty", questions |-> <<>>],
   [kind |-> "ok", questions |-> <<UnsupportedItem>>],
   [kind |-> "ok", questions |-> <<GoodItem>>],
   [kind |-> "ok", questions |-> <<GoodItem, UnsupportedItem, GoodItem>>],
   [kind |-> "ok", questions |-> <<ThreeOptionsItem, GoodItem>>],
   [kind |-> "ok", questions |-> <<GoodItem, OutOfRangeItem>>],
   [kind |-> "ok", questions |-> <<ShortWordItem, GoodItem>>]}

QuizCallError(kind) ==
  CASE kind = "http_error" -> "AI Gateway error: 500"
    [] kind = "no_tool_call" -> "AI did not return expected quiz format"
    [] kind = "bad_json" -> "Failed to parse quiz data from AI"
    [] OTHER -> "AI failed to generate quiz questions."

QuizInit ==
  /\ qpc = "start"
  /\ qMethod \in {"OPTIONS", "POST"}
  /\ qInput = [auth |-> "", doc |-> ""]
  /\ qCount \in {1, MaxQuizCount}
  /\ qCards = <<>>
  /\ qContent = EmptyText
  /\ qSentences = <<>>
  /\ qPromises = <<>>
  /\ qCalls = 0
  /\ qAiQuestions = <<>>
  /\ qItems = <<>>
  /\ qQuizzes = <<>>
  /\ qResponse = NoQuizResponse
  /\ DistractorIdle
  /\ DedupeIdle
  /\ ChunkIdle
  /\ HandlerIdle
  /\ SupportIdle
  /\ ReuseIdle

\* catch (error) { return new Response({ error }, { status: 500 }) }
QuizFail(msg) ==
  /\ qpc' = "done"
  /\ qResponse' = [status |-> 500, body |-> "error", error |-> msg]

QuizSuccess ==
  /\ qpc' = "done"
  /\ qResponse' = [status |-> 200, body |-> "success", error |-> ""]

\* if (req.method === 'OPTIONS') return new Response(null, ...)
QuizPreflight ==
  /\ qpc = "start"
  /\ qMethod = "OPTIONS"
  /\ qpc' = "done"
  /\ qResponse' = [status |-> 200, body |-> "null", error |-> ""]
  /\ UNCHANGED <<qMethod, qInput, qCount, qCards, qContent, qSentences,
                 qPromises, qCalls, qAiQuestions, qItems, qQuizzes, dvars, ddvars, cvars,
                 hvars, svars, rvars>>

\* The Authorization header and the reply of auth.getUser.
QuizAuthenticate ==
  /\ qpc = "start"
  /\ qMethod = "POST"
  /\ \E auth \in {"no_header", "no_user", "user"} :
       /\ qInput' = [qInput EXCEPT !.auth = auth]
       /\ IF AuthFailure(auth) # ""
          THEN QuizFail(AuthFailure(auth))
          ELSE qpc' = "lookup" /\ UNCHANGED qResponse
  /\ UNCHANGED <<qMethod, qCount, qCards, qContent, qSentences, qPromises,
                 qCalls, qAiQuestions, qItems, qQuizzes, dvars, ddvars, cvars, hvars, svars,
                 rvars>>

\* The reply of the documents query; the flashcards query is sent.
QuizLookupDocument ==
  /\ qpc = "lookup"
  /\ \E doc \in QuizDocumentLookups :
       /\ qInput' = [qInput EXCEPT !.doc = doc.result]
       /\ IF LookupFailure(doc.result) # ""
          THEN QuizFail(LookupFailure(doc.result)) /\ UNCHANGED qContent
          ELSE qpc' = "cards" /\ qContent' = doc.content /\ UNCHANGED qResponse
  /\ UNCHANGED <<qMethod, qCount, qCards, qSentences, qPromises, qCalls,
                 qAiQuestions, qItems, qQuizzes, dvars, ddvars, cvars, hvars, svars,
                 rvars>>

\* From the length check of content to the request sent next: the insert of
\* the quiz built from flashcards, or the first callAIGenerateQuiz. The loop
\* over pool has no await: every buildMCQFromCard call is started, and the
\* insert sent, in one step.
QuizBuild(content, validatedCards) ==
  /\ qContent' = content
  /\ IF content.len < 100
     THEN /\ QuizFail("Document content unreadable for quiz generation.")
          /\ UNCHANGED <<qSentences, qPromises, qCalls>>
     ELSE \E rawSentences \in shuffle(extractSentences(content.words)) :
            /\ qSentences' = rawSentences
            /\ IF Len(validatedCards) >= 4
               THEN \E pool \in shuffle(validatedCards) :
                    \E questions \in QuestionLists(pool, <<>>, validatedCards,
                                                   qCount, content.words,
                                                   rawSentences) :
                      /\ qPromises' = questions
                      /\ IF Len(questions) > 0
                         THEN /\ qpc' = "insert_quiz"
                              /\ UNCHANGED <<qCalls, qResponse>>
                         ELSE /\ qpc' = "call1"
                              /\ qCalls' = 1
                              /\ UNCHANGED qResponse
               ELSE /\ qpc' = "call1"
                    /\ qCalls' = 1
                    /\ UNCHANGED <<qPromises, qResponse>>

\* The reply of the flashcards query, then the LOVABLE_API_KEY check.
QuizFetchCards ==
  /\ qpc = "cards"
  /\ \E cards \in CardLookups, apiKey \in BOOLEAN :
       IF cards.error
       THEN /\ QuizFail("Unknown error occurred")
            /\ UNCHANGED <<qCards, qContent, qSentences, qPromises, qCalls>>
       ELSE /\ qCards' = cards.data
            /\ IF ~apiKey
               THEN /\ QuizFail("LOVABLE_API_KEY not configured")
                    /\ UNCHANGED <<qContent, qSentences, qPromises, qCalls>>
               ELSE IF qContent.len < 100
               THEN /\ qpc' = "download"
                    /\ UNCHANGED <<qContent, qSentences, qPromises, qCalls,
                                   qResponse>>
               ELSE QuizBuild(qContent, cards.data)
  /\ UNCHANGED <<qMethod, qInput, qCount, qAiQuestions, qItems, qQuizzes, dvars, ddvars,
                 cvars, hvars, svars, rvars>>

\* The reply of the storage download.
QuizDownload ==
  /\ qpc = "download"
  /\ \E file \in QuizDownloads :
       IF file.error
       THEN /\ QuizFail("Unknown error occurred")
            /\ UNCHANGED <<qContent, qSentences, qPromises, qCalls>>
       ELSE IF file.isPDF
       THEN /\ qpc' = "extract"
            /\ UNCHANGED <<qContent, qSentences, qPromises, qCalls, qResponse>>
       ELSE QuizBuild(file.text, qCards)
  /\ UNCHANGED <<qMethod, qInput, qCount, qCards, qAiQuestions, qItems, qQuizzes, dvars,
                 ddvars, cvars, hvars, svars, rvars>>

\* The reply of the extraction request for a PDF.
QuizExtract ==
  /\ qpc = "extract"
  /\ \E reply \in Extractions :
       IF reply.ok
       THEN QuizBuild(reply.text, qCards)
       ELSE /\ QuizFail("Could not extract text from PDF for quiz generation.")
            /\ UNCHANGED <<qContent, qSentences, qPromises, qCalls>>
  /\ UNCHANGED <<qMethod, qInput, qCount, qCards, qAiQuestions, qItems, qQuizzes, dvars,
                 ddvars, cvars, hvars, svars, rvars>>

\* The reply of callAIGenerateDistractors to the i-th buildMCQFromCard call,
\* which runs to its end and settles its promise.
DistractorReply(i) ==
  /\ qPromises[i].state = "pending"
  /\ \E aiDistractors \in AiDistractorReplies :
       LET p == qPromises[i]
           distractors == AddAiDistractors(p.distractors, aiDistractors,
                                           p.card.answer, qContent.words)
       IN \E v \in MCQResults(p.card, distractors) :
            qPromises' = [qPromises EXCEPT ![i] =
                            [p EXCEPT !.distractors = distractors,
                                      !.state = "fulfilled",
                                      !.value = v]]
  /\ UNCHANGED <<qpc, qMethod, qInput, qCount, qCards, qContent, qSentences,
                 qCalls, qAiQuestions, qItems, qQuizzes, qResponse, dvars, ddvars, cvars,
                 hvars, svars, rvars>>

\* The reply of the insert of the quiz built from flashcards.
InsertCardQuiz ==
  /\ qpc = "insert_quiz"
  /\ \E insertError \in BOOLEAN :
       IF insertError
       THEN QuizFail("Unknown error occurred") /\ UNCHANGED qQuizzes
       ELSE /\ qQuizzes' = Append(qQuizzes,
                                  [questions |-> Serialise(qPromises)])
            /\ QuizSuccess
  /\ UNCHANGED <<qMethod, qInput, qCount, qCards, qContent, qSentences,
                 qPromises, qCalls, qAiQuestions, qItems, dvars, ddvars, cvars, hvars, svars,
                 rvars>>

\* From the retry test to the insert of the generated quiz.
QuizAccept(validatedItems) ==
  /\ qItems' = validatedItems
  /\ IF Len(validatedItems) = 0
     THEN QuizFail("Could not generate quiz questions supported by document. Try generating flashcards first or ensure the document contains selectable text.")
     ELSE qpc' = "insert_ai" /\ UNCHANGED qResponse

\* The reply of the first callAIGenerateQuiz.
QuizGenerate1 ==
  /\ qpc = "call1"
  /\ \E resp \in QuizAiResponses :
       IF resp.kind # "ok"
       THEN /\ QuizFail(QuizCallError(resp.kind))
            /\ UNCHANGED <<qCalls, qAiQuestions, qItems>>
       ELSE LET validatedItems == validateQuizItems(resp.questions,
                                                    qContent.words)
            IN /\ qAiQuestions' = resp.questions
               /\ IF Len(validatedItems) < MinOf(3, qCount)
                  THEN /\ qpc' = "call2"
                       /\ qCalls' = 2
                       /\ qItems' = validatedItems
                       /\ UNCHANGED qResponse
                  ELSE QuizAccept(validatedItems) /\ UNCHANGED qCalls
  /\ UNCHANGED <<qMethod, qInput, qCount, qCards, qContent, qSentences,
                 qPromises, qQuizzes, dvars, ddvars, cvars, hvars, svars,
                 rvars>>

\* The reply of the second callAIGenerateQuiz.
QuizGenerate2 ==
  /\ qpc = "call2"
  /\ \E resp \in QuizAiResponses :
       IF resp.kind # "ok"
       THEN QuizFail(QuizCallError(resp.kind)) /\ UNCHANGED <<qItems, qAiQuestions>>
       ELSE /\ qAiQuestions' = resp.questions
            /\ QuizAccept(validateQuizItems(resp.questions, qContent.words))
  /\ UNCHANGED <<qMethod, qInput, qCount, qCards, qContent, qSentences,
                 qPromises, qCalls, qQuizzes, dvars, ddvars, cvars, hvars,
                 svars, rvars>>

\* validatedItems.slice(0, count)
FinalQuestions(validatedItems, count) ==
  SubSeq(validatedItems, 1, MinOf(count, Len(validatedItems)))

\* The reply of the insert of the generated quiz.
InsertAiQuiz ==
  /\ qpc = "insert_ai"
  /\ \E insertQuizError \in BOOLEAN :
       IF insertQuizError
       THEN QuizFail("Unknown error occurred") /\ UNCHANGED qQuizzes
       ELSE /\ qQuizzes' = Append(qQuizzes,
                                  [questions |-> FinalQuestions(qItems, qCount)])
            /\ QuizSuccess
  /\ UNCHANGED <<qMethod, qInput, qCount, qCards, qContent, qSentences,
                 qPromises, qCalls, qAiQuestions, qItems, dvars, ddvars, cvars, hvars, svars,
                 rvars>>

QuizNext ==
  \/ QuizPreflight
  \/ QuizAuthenticate
  \/ QuizLookupDocument
  \/ QuizFetchCards
  \/ QuizDownload
  \/ QuizExtract
  \/ \E i \in 1..Len(qPromises) : DistractorReply(i)
  \/ InsertCardQuiz
  \/ QuizGenerate1
  \/ QuizGenerate2
  \/ InsertAiQuiz

SpecQuiz == QuizInit /\ [][QuizNext]_vars

\* ------------------------------- buildQuizFromFlashcards (earlier versions)
\* The padded distractor: the correct answer cut to 60 % and '...' when it
\* is longer than 10 characters, else the correct answer and ' (alt)'.
Alt(correct) ==
  IF StrLen(correct) > 10
  THEN Append(SubSeq(correct, 1, MaxOf(1, (Len(correct) * 6) \div 10)), "...")
  ELSE Append(correct, "(alt)")

\* while (options.length < 4) { if (!options.includes(alt)) push; else break }
RECURSIVE PadOptions(_, _)
PadOptions(options, correct) ==
  IF Len(options) >= 4 THEN options
  ELSE IF \E k \in 1..Len(options) : options[k] = Alt(correct) THEN options
  ELSE PadOptions(Append(options, Alt(correct)), correct)

\* One iteration of the loop for `card`: the lists `questions` can be after
\* it, one per outcome of the two shuffles.
ReuseQuestions(questions, pool, card) ==
  LET others == SelectSeq(pool, LAMBDA c : c.id # card.id)
      answers == [k \in 1..Len(others) |-> others[k].answer]
  IN UNION {
       LET options == <<card.answer>> \o SubSeq(otherAnswers, 1, MinOf(3, Len(otherAnswers)))
       IN IF Len(options) < 2 THEN {questions}
          ELSE LET padded == PadOptions(options, card.answer)
               IN {IF FindIndex(finalOptions, card.answer) = -1 THEN questions
                   ELSE Append(questions,
                               [keys |-> AllKeys,
                                question |-> card.question,
                                options |-> finalOptions,
                                correctIndex |-> FindIndex(finalOptions, card.answer),
                                explanation |-> <<>>]) :
                     finalOptions \in shuffle(SubSeq(padded, 1, MinOf(4, Len(padded))))} :
       otherAnswers \in shuffle(answers)}

ReuseAnswers == {<<"atp">>, <<"cell", "makes", "atp">>, <<"energy">>}

\* Stored cards: rows of flashcards, whose ids are distinct.
ReuseDecks ==
  {[k \in 1..4 |-> QuizCard(k, <<"cell", "makes">>, answers[k], NullPage, NullPage)] :
     answers \in [1..4 -> ReuseAnswers]}

ReuseInit ==
  /\ rpc = "start"
  /\ rCards \in ReuseDecks
  /\ rCount \in {1, MaxQuizCount}
  /\ rPool = <<>>
  /\ rI = 0
  /\ rQuestions = <<>>
  /\ DistractorIdle
  /\ DedupeIdle
  /\ ChunkIdle
  /\ HandlerIdle
  /\ SupportIdle
  /\ QuizIdle

\* const pool = shuffle([...cards])
ReuseShuffle ==
  /\ rpc = "start"
  /\ rPool' \in shuffle(rCards)
  /\ rpc' = "loop"
  /\ UNCHANGED <<rCards, rCount, rI, rQuestions, dvars, ddvars, cvars, hvars,
                 svars, qvars>>

\* One iteration of the loop; `added` is questions.length.
ReuseStep ==
  /\ rpc = "loop"
  /\ rI < Len(rPool)
  /\ Len(rQuestions) < MinOf(rCount, Len(rPool))
  /\ rQuestions' \in ReuseQuestions(rQuestions, rPool, rPool[rI + 1])
  /\ rI' = rI + 1
  /\ UNCHANGED <<rpc, rCards, rCount, rPool, dvars, ddvars, cvars, hvars,
                 svars, qvars>>

\* return questions
ReuseReturn ==
  /\ rpc = "loop"
  /\ ~(rI < Len(rPool) /\ Len(rQuestions) < MinOf(rCount, Len(rPool)))
  /\ rpc' = "done"
  /\ UNCHANGED <<rCards, rCount, rPool, rI, rQuestions, dvars, ddvars, cvars,
                 hvars, svars, qvars>>

ReuseNext == ReuseShuffle \/ ReuseStep \/ ReuseReturn

SpecReuse == ReuseInit /\ [][ReuseNext]_vars

\* ================================================================ claims

\* --------------------------------------------------- grounded generation
\* A card or row is grounded in a text when a token of three or more
\* characters of its question or of its answer occurs in the text.
Grounded(c, text) ==
  \E t \in TokenSet(c.question) \cup TokenSet(c.answer) :
    TokLen(t) >= 3 /\ Includes(ToLower(text), t)

GroundedCount(cards, text) ==
  Cardinality({i \in 1..Len(cards) : Grounded(cards[i], text)})

\* The batch in hFlashcards is the one the acceptance check looked at: the
\* last generation call issued has returned a batch.
FinallyEvaluated ==
  hCalls # <<>> /\ hCalls[Len(hCalls)].outcome = "ok"

\* C1: when less than half of the cards of the finally evaluated batch are
\* supported, or none is, the request has ended with an error response and
\* neither a flashcard_sets row nor a flashcards row has been inserted.
C1_LowSupportRejected ==
  (/\ FinallyEvaluated
   /\ \/ 2 * GroundedCount(hFlashcards, hContent.words) < Len(hFlashcards)
      \/ GroundedCount(hFlashcards, hContent.words) = 0)
  => /\ hpc = "done"
     /\ hResponse.status = 500
     /\ hResponse.body = "error"
     /\ hSets = <<>>
     /\ hRows = <<>>

\* Ten cards with three supported, on the first call and again on the retry.
C1_Witness ==
  /\ hpc = "done"
  /\ Len(hCalls) = 2
  /\ FinallyEvaluated
  /\ hFirstEval = [total |-> 10, supported |-> 3]
  /\ Len(hFlashcards) = 10
  /\ GroundedCount(hFlashcards, hContent.words) = 3
  /\ hResponse.status = 500
  /\ hSets = <<>>
  /\ hRows = <<>>

\* C2: a request issues at most two generation calls, the first without an
\* added instruction; the second is issued exactly when the first returned a
\* batch with a support rate below 0.6, and carries the stricter
\* instruction; a call that fails is the last one and ends the request with
\* an error response.
C2_AtMostOneRetry ==
  /\ Len(hCalls) <= 2
  /\ hCalls # <<>> => hCalls[1].instruction = ""
  /\ (hCalls # <<>> /\ hCalls[1].outcome # "pending") =>
       (Len(hCalls) = 2 <=>
          /\ hCalls[1].outcome = "ok"
          /\ 10 * hFirstEval.supported < 6 * hFirstEval.total)
  /\ Len(hCalls) = 2 => hCalls[2].instruction = "stricter"
  /\ \A i \in 1..Len(hCalls) :
       hCalls[i].outcome \notin {"ok", "pending"} =>
         /\ i = Len(hCalls)
         /\ hpc = "done"
         /\ hResponse.status = 500

\* A retry whose call failed.
C2_Witness ==
  /\ hpc = "done"
  /\ Len(hCalls) = 2
  /\ hCalls[1].outcome = "ok"
  /\ hCalls[2].instruction = "stricter"
  /\ hCalls[2].outcome = "http_error"
  /\ 2 * hFirstEval.supported = hFirstEval.total
  /\ hResponse.status = 500

\* C3: every row inserted into flashcards is grounded in the document text.
C3_InsertedCardsGrounded ==
  \A i \in 1..Len(hRows) : Grounded(hRows[i], hContent.words)

\* Rows are inserted from a batch with an unsupported card, and one of the
\* rows carries text that the duplicate removal wrote over an earlier entry.
C3_Witness ==
  /\ hpc = "done"
  /\ hResponse.status = 200
  /\ Len(hValidated) < Len(hFlashcards)
  /\ Len(hRows) < Len(hValidated)
  /\ \E i \in 1..Len(hRows) : hRows[i].answer # hValidated[i].answer

\* C14: a request whose extracted text (cached, heuristic, OCR or plain
\* text) is shorter than 100 characters ends with an error response, and no
\* generation call is made and no row inserted for it.
C14_ShortTextNeverGenerates ==
  /\ (hCalls # <<>> \/ hSets # <<>> \/ hRows # <<>>) => hContent.len >= 100
  /\ hpc \in {"call1", "call2", "insert_set", "insert_cards"} =>
       hContent.len >= 100
  /\ (hpc = "done" /\ hMethod = "POST" /\ hContent.len < 100) =>
       hResponse.status = 500 /\ hResponse.body = "error"

\* OCR returned more text than the heuristic extraction, still too little.
C14_Witness ==
  /\ hpc = "done"
  /\ hDownloads = 1
  /\ hOcrCalls = 1
  /\ hUsedOcr
  /\ hContent.len = 99
  /\ hCalls = <<>>
  /\ hResponse.status = 500

\* answer.trim().split(/\s+/).filter(Boolean).length
WordCount(text) == Cardinality({i \in 1..Len(text) : text[i] # WS})

\* No answer of the model holds more than one sentence.
SentenceCount(text) == IF WordCount(text) = 0 THEN 0 ELSE 1

InBand(difficulty, words, sentences) ==
  CASE difficulty = "easy" -> words \in 1..12 /\ sentences <= 1
    [] difficulty = "medium" -> words \in 13..40 /\ sentences <= 2
    [] difficulty = "hard" -> words \in 41..250 /\ sentences <= 6
    [] OTHER -> FALSE

\* C17: every flashcards row conforms to the band of its stored difficulty:
\* easy 1-12 words and at most 1 sentence, medium 13-40 and at most 2, hard
\* 41-250 and at most 6.
C17_DifficultyBands ==
  \A i \in 1..Len(hRows) :
    InBand(hRows[i].difficulty, WordCount(hRows[i].answer),
           SentenceCount(hRows[i].answer))

\* C18: a request without Authorization header, with a token that resolves
\* to no user, or for a document that does not exist has ended with an
\* {error} response of status 500 without a download, an OCR call, a
\* generation call or an inserted row.
C18_InputErrorsFailFast ==
  (hInput.auth \in {"no_header", "no_user"} \/ hInput.doc = "none") =>
    /\ hpc = "done"
    /\ hResponse.status = 500
    /\ hResponse.body = "error"
    /\ hResponse.error # ""
    /\ hDownloads = 0
    /\ hOcrCalls = 0
    /\ hCalls = <<>>
    /\ hSets = <<>>
    /\ hRows = <<>>

\* An authenticated request for a document that does not exist.
C18_Witness ==
  /\ hpc = "done"
  /\ hInput = [auth |-> "user", doc |-> "none"]
  /\ hResponse.error = "Document not found"
  /\ hResponse.status = 500

\* C19: the flashcard_sets row is inserted before its flashcards rows and
\* only for a batch that passed validation and duplicate removal; when the
\* insert of the flashcards fails the request answers with an error and the
\* set row stays, without rows.
C19_SetBeforeCardsNoRollback ==
  /\ [](/\ hRows # <<>> => hSets # <<>>
        /\ hSets # <<>> =>
             /\ FinallyEvaluated
             /\ 2 * GroundedCount(hFlashcards, hContent.words) >= Len(hFlashcards)
             /\ hDeduped # <<>>
             /\ Len(hSets) = 1
             /\ hSets[1].card_count = Len(hDeduped)
        /\ \A i \in 1..Len(hRows) : hRows[i].set_id = hSets[1].id)
  /\ [][/\ hSets' # hSets => hRows = <<>> /\ hRows' = <<>>
        /\ hRows' # hRows => hSets # <<>> /\ hSets' = hSets
        /\ (hpc = "insert_cards" /\ hResponse'.status = 500) =>
             hSets' = hSets /\ hRows' = <<>>]_vars

\* The orphaned set: a set row, no flashcards row, an error response.
C19_Witness ==
  /\ hpc = "done"
  /\ hResponse.status = 500
  /\ Len(hSets) = 1
  /\ hSets[1].card_count > 0
  /\ hRows = <<>>

\* ------------------------------------------------------------ confidence
\* The tokens of 3 or more characters of a text that are in the token set of
\* the source, counted with their repetitions, over all such tokens.
MemberCount(text, source) ==
  Cardinality({i \in 1..Len(tokenizeWords(text)) :
                 /\ TokLen(tokenizeWords(text)[i]) >= 3
                 /\ tokenizeWords(text)[i] \in SeqToSet(tokenizeWords(source))})

LongCount(text) ==
  Cardinality({i \in 1..Len(tokenizeWords(text)) :
                 TokLen(tokenizeWords(text)[i]) >= 3})

\* C16: computeSupportScore returns 0.4 q + 0.6 a, q and a being the share of
\* the question's and of the answer's tokens of 3 or more characters that
\* are in the source's token set (0 without such a token), and the result
\* lies between 0 and 1.
C16_WeightedOverlap ==
  spc = "done" =>
    LET nq == LongCount(sCard.question)
        na == LongCount(sCard.answer)
        mq == MemberCount(sCard.question, sSource)
        ma == MemberCount(sCard.answer, sSource)
        dq == IF nq = 0 THEN 1 ELSE nq
        da == IF na = 0 THEN 1 ELSE na
    IN \* score = (4 mq / dq + 6 ma / da) / 10, cross-multiplied
       /\ sScore[1] * 10 * dq * da = sScore[2] * (4 * mq * da + 6 * ma * dq)
       /\ sScore[1] >= 0
       /\ sScore[1] <= sScore[2]

\* ---------------------------------------------------------------- dedupe
Similar(a, b) ==
  FGe(computeJaccard(Combined(a), Combined(b)), Frac(7, 10))

Payload(c) == <<c.question, c.answer, c.confidence>>

HigherOf(u, c) ==
  IF FGt(ConfOrZero(c), ConfOrZero(u)) THEN Payload(c) ELSE Payload(u)

\* C4: when dedupeCards(cards, 0.7) has returned, no two distinct entries of
\* the returned list have a Jaccard similarity of 0.7 or more on their
\* combined "question ||| answer" texts.
C4_NoSimilarPairKept ==
  ddpc = "done" =>
    \A i, j \in 1..Len(ddUnique) :
      i # j => ~Similar(ddUnique[i], ddUnique[j])

\* C5: dedupeCards run on the list dedupeCards returned gives back that list,
\* entry for entry.
C5_DedupeIdempotent ==
  ddpc = "rerun" => ddAgain = ddUnique

C10_DistractorScenario ==
  dpc = "done" =>
    /\ dCandidate = dCorrect => ~dResult
    /\ FGe(computeJaccard(dCandidate, dCorrect), Frac(85, 100)) => ~dResult
    /\ (/\ FEq(computeJaccard(dCandidate, dCorrect), Frac(4, 10))
        /\ FLt(computeSupportScoreOfText(dCandidate, dSource), Frac(1, 2)))
       => dResult

\* C10 witness: a candidate of similarity 0.4 and support below 0.5 was
\* accepted.
C10_Witness ==
  /\ dpc = "done"
  /\ FGt(computeSupportScoreOfText(dCandidate, dSource), Frac(0, 1))
  /\ FEq(computeJaccard(dCandidate, dCorrect), Frac(4, 10))
  /\ FLt(computeSupportScoreOfText(dCandidate, dSource), Frac(1, 2))
  /\ dResult
\* ------------------------------------------------- page range and chunks
RangeRequested == cStart # 0 \/ cEnd # 0

\* C7: the text lengths of the chunks chosen for the prompt sum to at most
\* the budget of 30000 characters, whether they were picked by score or
\* built by the zero-score fallback, in both versions of the handler.
C7_WithinBudget ==
  cpc = "selected" => SumLen(cSelected) <= 30000

\* C7 witness: chunks were picked by score from a pool longer than the
\* budget, one or more were left out, and what was picked comes within one
\* window of the budget.
C7_Witness ==
  /\ cpc = "selected"
  /\ ~cFallback
  /\ SumLen(cChunks) > 30000
  /\ Len(cSelected) < Len(cChunks)
  /\ SumLen(cSelected) > 30000 - 2200

\* C8: when a page range lying inside the document is requested, the chunk
\* pool is cut from the pages of that range only, and page_from and page_to
\* of every chunk (of the pool and of the selection) are page numbers of the
\* document inside the requested range.
C8_ChunksInsideRange ==
  (/\ cVariant = "paged"
   /\ cpc \in {"chunked", "scored", "selected"}
   /\ RangeRequested
   /\ cStart \in 0..Len(cPages)
   /\ cEnd \in 0..Len(cPages)
   /\ OrElse(cStart, 1) <= OrElse(cEnd, Len(cPages)))
  => LET lo == OrElse(cStart, 1)
         hi == OrElse(cEnd, Len(cPages))
     IN /\ \A i \in 1..Len(cChunks) :
             /\ cChunks[i].src \in lo..hi
             /\ cChunks[i].page_from \in lo..hi
             /\ cChunks[i].page_to \in lo..hi
        /\ \A i \in 1..Len(cSelected) :
             /\ cSelected[i].page_from \in lo..hi
             /\ cSelected[i].page_to \in lo..hi

\* C9: when a page range is requested, from and to both lie in
\* [1, pageCount] and the pages used are pages[from..to].
C9_BoundsClamped ==
  (/\ cVariant = "paged"
   /\ cpc \in {"ranged", "chunked", "scored", "selected"}
   /\ RangeRequested)
  => /\ cFrom \in 1..Len(cPages)
     /\ cTo \in 1..Len(cPages)
     /\ cPagesToUse = SubSeq(cPages, cFrom, cTo)

\* C15: when no non-stopword token occurs twice in the document, chunk
\* selection falls back to even sampling, and the sampled chunks have
\* non-empty text and reach from the start to the end of the document.
C15_DegenerateProfileSampled ==
  (/\ cpc = "selected"
   /\ ~RangeRequested
   /\ NoRepeatedKeyword(IF cVariant = "paged" THEN cPagesToUse ELSE cDoc))
  => /\ cFallback
     /\ cSelected # <<>>
     /\ \A i \in 1..Len(cSelected) : cSelected[i].len > 0
     /\ cSelected[1].start = 0
     /\ cSelected[Len(cSelected)].start + cSelected[Len(cSelected)].len
          = (IF cVariant = "paged" THEN FlatLen(cPagesToUse) ELSE cDoc[1].len)

\* ------------------------------------------------------------------- quiz
\* The entry of a persisted questions list at position i is what the i-th
\* buildMCQFromCard call of the request contributed.
SettledNull(p) == p.state = "fulfilled" /\ p.value = <<>>

\* C11: in the quiz built from flashcards, a card left with fewer than 3
\* validated distractors after the AI fallback (its buildMCQFromCard call
\* returns null) contributes no entry to the questions of the persisted quiz.
C11_SkippedCardNotPersisted ==
  \A k \in 1..Len(qQuizzes) :
    qPromises # <<>> =>
      \A i \in 1..Len(qPromises) :
        SettledNull(qPromises[i]) => i > Len(qQuizzes[k].questions)

HasFourOptions(q) ==
  /\ "options" \in q.keys
  /\ Len(q.options) = 4
  /\ "correctIndex" \in q.keys
  /\ q.correctIndex \in 0..3

\* C12: every entry of the questions persisted by the quiz built from
\* flashcards is a question with exactly 4 options whose correctIndex
\* designates the card's answer.
C12_FourOptionsCorrectIndex ==
  \A k \in 1..Len(qQuizzes) :
    qPromises # <<>> =>
      \A i \in 1..Len(qQuizzes[k].questions) :
        LET q == qQuizzes[k].questions[i]
        IN /\ HasFourOptions(q)
           /\ q.options[q.correctIndex + 1] = qPromises[i].card.answer

\* C13: while a buildMCQFromCard call, or the AI distractor request it
\* waits for, is pending, the quizzes insert has not been issued and the
\* response has not been sent.
C13_AwaitedBeforeInsert ==
  (\E i \in 1..Len(qPromises) : qPromises[i].state = "pending") =>
    /\ qpc # "insert_quiz"
    /\ qQuizzes = <<>>
    /\ qResponse = NoQuizResponse

\* C20: every question persisted by the AI-generated quiz path has exactly
\* 4 options and a correctIndex in 0..3.
C20_GeneratedQuizFourOptions ==
  \A k \in 1..Len(qQuizzes) :
    qCalls > 0 =>
      \A i \in 1..Len(qQuizzes[k].questions) :
        HasFourOptions(qQuizzes[k].questions[i])

\* The card the i-th question of buildQuizFromFlashcards was built from: the
\* loop skips no card of the pool that has an answer.
ReuseCard(i) == rPool[i]

\* C21: every question buildQuizFromFlashcards returns has exactly 4 options,
\* its correctIndex designates the card's answer, and no other option is
\* textually identical to that answer.
C21_ReuseOptionsDistinct ==
  \A i \in 1..Len(rQuestions) :
    LET q == rQuestions[i]
    IN /\ HasFourOptions(q)
       /\ q.options[q.correctIndex + 1] = ReuseCard(i).answer
       /\ \A k \in 1..4 :
            k # q.correctIndex + 1 => q.options[k] # ReuseCard(i).answer

\* The support check of a quiz item: some token of 3 or more characters of
\* its question or of its correct option occurs in the document text.
ItemSupported(it, sourceText) ==
  \/ supportedBySource(it.question, sourceText)
  \/ supportedBySource(CorrectOption(it), sourceText)

\* C22: validateQuizItems keeps a generated item exactly when a token of 3
\* or more characters of its question or of its correct option occurs,
\* whatever the case, in the document text; every question persisted by the
\* AI quiz path passes that check.
C22_KeptIffTokenInSource ==
  /\ \A i \in 1..Len(qAiQuestions) :
       (\E k \in 1..Len(qItems) : qItems[k] = qAiQuestions[i])
         <=> ItemSupported(qAiQuestions[i], qContent.words)
  /\ \A k \in 1..Len(qQuizzes) :
       qCalls > 0 =>
         \A i \in 1..Len(qQuizzes[k].questions) :
           ItemSupported(qQuizzes[k].questions[i], qContent.words)

\* The characters taken by the chunks before position k of the scored list
\* that fit the budget, each on top of those taken before it.
RECURSIVE UsedBefore(_, _)
UsedBefore(chunks, k) ==
  IF k <= 1 THEN 0
  ELSE LET before == UsedBefore(chunks, k - 1)
       IN IF before + chunks[k - 1].len <= MAX_CONTENT_SIZE
          THEN before + chunks[k - 1].len
          ELSE before

FitsBudget(chunks, k) == UsedBefore(chunks, k) + chunks[k].len <= MAX_CONTENT_SIZE

ScoreSelected == cpc = "selected" /\ cVariant = "paged" /\ ~cFallback

\* C23: with a non-zero total score the chunks are taken in descending
\* score order, equal scores in their original order, and the selection is
\* exactly the chunks that fit the budget on top of those selected before
\* them: one that does not fit is skipped and later ones are still taken.
C23_GreedyStableSelection ==
  ScoreSelected =>
    /\ \A i, j \in 1..Len(cChunks) :
         i < j =>
           /\ cChunks[i].score >= cChunks[j].score
           /\ cChunks[i].score = cChunks[j].score => cChunks[i].start < cChunks[j].start
    /\ cSelected = SelectSeq(cChunks, LAMBDA c : \E k \in 1..Len(cChunks) :
                                           cChunks[k] = c /\ FitsBudget(cChunks, k))

\* C23 witness: two chunks have the same score, and a chunk that did not fit
\* was skipped before a later one was taken.
C23_Witness ==
  /\ ScoreSelected
  /\ \E i, j \in 1..Len(cChunks) :
       i < j /\ cChunks[i].score = cChunks[j].score /\ cChunks[i].score > 0
  /\ \E i, j \in 1..Len(cChunks) :
       /\ i < j
       /\ ~FitsBudget(cChunks, i)
       /\ FitsBudget(cChunks, j)
       /\ \E k \in 1..Len(cSelected) : cSelected[k] = cChunks[j]

\* The chunks cut from the page at position p of the pages used, in the
\* order they were cut, and the offset of that page in the chunked text.
ChunksOfPage(p) == SelectSeq(cChunks, LAMBDA c : c.page_from = p)

RECURSIVE PageOffset(_)
PageOffset(p) == IF p <= 1 THEN 0 ELSE PageOffset(p - 1) + cPagesToUse[p - 1].len

PagesChunked == cpc = "chunked" /\ cVariant = "paged"

\* The first chunk of the page begins at the page's first character, the
\* last one ends at its last, and every chunk carries the page's number.
PageEndsCovered(p) ==
  LET cs == ChunksOfPage(p)
  IN /\ cs # <<>>
     /\ cs[1].start = PageOffset(p)
     /\ cs[Len(cs)].end = PageOffset(p) + cPagesToUse[p].len
     /\ \A k \in 1..Len(cs) : cs[k].page_to = p /\ cs[k].end - cs[k].start <= CHUNK_SIZE

OnlyWhitespace(p, from, to) ==
  /\ PageOffset(p) + cPagesToUse[p].blank[1] <= from
  /\ to <= PageOffset(p) + cPagesToUse[p].blank[2]

Retried == Len(hCalls) = 2 /\ hCalls[2].outcome = "ok"

FirstRate == Frac(hFirstEval.supported, hFirstEval.total)

RetryRate == Frac(GroundedCount(hFlashcards, hContent.words), Len(hFlashcards))

FromBatch(c, batch) ==
  \E i \in 1..Len(batch) :
    batch[i].question = c.question /\ batch[i].answer = c.answer

\* C25: once a retry has returned, acceptance rests on the retry batch
\* alone: every validated card and every inserted row is a card of the
\* retry batch, and a retry batch supported below one half ends the request
\* with an error and no row, also when the first batch had reached one half.
C25_RetryBatchAlone ==
  Retried =>
    /\ \A i \in 1..Len(hValidated) : FromBatch(hValidated[i], hFlashcards)
    /\ \A i \in 1..Len(hRows) : FromBatch(hRows[i], hFlashcards)
    /\ FLt(RetryRate, MIN_ACCEPT_SUPPORT_RATE) =>
         /\ hpc = "done"
         /\ hResponse.status = 500
         /\ hSets = <<>>
         /\ hRows = <<>>

\* C25 witness: the first batch was supported at one half or more and below
\* 0.6, the retry batch below one half, and the request has failed.
C25_Witness ==
  /\ Retried
  /\ FGe(FirstRate, MIN_ACCEPT_SUPPORT_RATE)
  /\ FLt(FirstRate, SUPPORT_RETRY_THRESHOLD)
  /\ hFirstEval.supported > 0
  /\ FLt(RetryRate, MIN_ACCEPT_SUPPORT_RATE)
  /\ hResponse.status = 500

\* C26: on every successful response the card_count of the flashcard_sets
\* row, the number of flashcards rows inserted, the count of the response and
\* the number of cards in the response all equal the length of deduped.
C26_CountsAgree ==
  (hpc = "done" /\ hResponse.status = 200 /\ hResponse.body = "success") =>
    /\ Len(hSets) = 1
    /\ hSets[1].card_count = Len(hDeduped)
    /\ Len(hRows) = Len(hDeduped)
    /\ hResponse.count = Len(hDeduped)
    /\ Len(hResponse.flashcards) = Len(hDeduped)

\* A success where dedupe dropped a card and a kept card has no page range.
C26_Witness ==
  /\ hpc = "done" /\ hResponse.status = 200 /\ hResponse.body = "success"
  /\ Len(hDeduped) < Len(hValidated)
  /\ \E i \in 1..Len(hDeduped) : hDeduped[i].page_from = NullPage
  /\ Len(hRows) = Len(hDeduped)

\* ------------------------------------------------- supported distractors
FullySupported(text, source) ==
  /\ LongTokens(text) # <<>>
  /\ \A i \in 1..Len(LongTokens(text)) : LongTokens(text)[i] \in TokenSet(source)

\* C27: a candidate all of whose tokens of 3 or more characters are in the
\* source's token set (support 1) is rejected by isValidDistractor whatever
\* the correct answer is, and no sentence of extractSentences(source) with
\* such a token is among the distractors pickBestDistractors chooses.
C27_SupportedNeverDistractor ==
  /\ (dpc \in {"done", "picked"} /\ FullySupported(dCandidate, dSource))
       => ~dResult
  /\ dpc = "picked" =>
       \A i \in 1..Len(dChosen) :
         /\ ~FullySupported(dChosen[i], dSource)
         /\ \A k \in 1..Len(extractSentences(dSource)) :
              LongTokens(extractSentences(dSource)[k]) # <<>>
                => dChosen[i] # extractSentences(dSource)[k]

\* A fully supported candidate of medium similarity to a fully supported
\* correct answer was offered together with two document sentences.
C27_Witness ==
  /\ dpc = "picked"
  /\ Len(SentenceCandidates(extractSentences(dSource), dCorrect)) = 2
  /\ FullySupported(dCandidate, dSource)
  /\ ToLower(Trim(dCandidate)) # ToLower(dCorrect)
  /\ FGe(computeJaccard(dCandidate, dCorrect), Frac(15, 100))
  /\ FLt(computeJaccard(dCandidate, dCorrect), Frac(75, 100))
  /\ FEq(computeSupportScoreOfText(dCorrect, dSource), Frac(1, 1))
  /\ dChosen = <<>>

\* ------------------------------------------------- frame of the upgrade
\* The iteration of dedupeCards being taken changes an accepted entry.
Upgrading ==
  /\ ddpc = "loop"
  /\ ddI' = ddI + 1
  /\ Len(ddUnique') = Len(ddUnique)
  /\ ddUnique' # ddUnique

\* C28: when dedupeCards upgrades an earlier entry with a more confident
\* duplicate, the entry takes the duplicate's question, answer, difficulty
\* and confidence only: its page_from and page_to stay those of the earlier
\* card, it keeps its position, and no other entry of the list changes.
C28_UpgradeFrame ==
  [][Upgrading =>
       \E i \in 1..Len(ddUnique) :
         /\ ddUnique'[i].question = ddCards[ddI + 1].question
         /\ ddUnique'[i].answer = ddCards[ddI + 1].answer
         /\ ddUnique'[i].confidence = ddCards[ddI + 1].confidence
         /\ ddUnique'[i].difficulty \in
              {ddCards[ddI + 1].difficulty, ddUnique[i].difficulty}
         /\ ddUnique'[i].page_from = ddUnique[i].page_from
         /\ ddUnique'[i].page_to = ddUnique[i].page_to
         /\ \A j \in 1..Len(ddUnique) : j # i => ddUnique'[j] = ddUnique[j]]_vars

\* The first of two accepted entries carries the text of the card of page 2
\* and the page range of the card of page 1 it replaced.
C28_Witness ==
  /\ ddpc = "done"
  /\ Len(ddUnique) = 2
  /\ ddUnique[1].question = <<"cell", "makes">>
  /\ ddUnique[1].answer = <<"atp", "energy">>
  /\ ddUnique[1].difficulty = "medium"
  /\ ddUnique[1].page_from = 1
  /\ ddUnique[1].page_to = 1
  /\ ddCards[1].answer = <<"atp">>

\* --------------------------------------------------- page range of a card
\* C29: the page range given to a card by the page-aware handler is either
\* null and null or two integers with 1 <= page_from <= page_to, whichever
\* branch produced it: the best matching selected chunk, the estimate from
\* the character offset, or no match.
C29_PageRangeValid ==
  cpc = "mapped" =>
    \/ cCardPages = <<NullPage, NullPage>>
    \/ /\ cCardPages[1] # NullPage
       /\ cCardPages[2] # NullPage
       /\ 1 <= cCardPages[1]
       /\ cCardPages[1] <= cCardPages[2]

\* A card matched to an evenly spaced chunk of a document of several pages:
\* its range is the whole of the pages in use.
C29_Witness ==
  /\ cpc = "mapped"
  /\ cFallback
  /\ Len(cPagesToUse) >= 2
  /\ cCardPages = <<1, Len(cPagesToUse)>>

\* ------------------------------------------------------ deduped not empty
FilteredOutError ==
  "All generated flashcards were filtered out as duplicates or unsupported."

\* `validated` as dedupeCards receives it: with confidence and page range.
ScoredValidated ==
  [i \in 1..Len(hValidated) |->
     WithConfidenceAndPages(hValidated[i], hContent, SelectedChunks(hContent))]

DedupeHasRun == hpc \in {"insert_set", "insert_cards"} \/ hResponse.status = 200

\* C30: the handler never answers with the error 'All generated flashcards
\* were filtered out as duplicates or unsupported.': whenever dedupeCards has
\* run its input was not empty and its output holds the entry of the first
\* input card, so 1 <= |deduped| <= |validated|.
C30_DedupedNeverEmpty ==
  /\ hResponse.error # FilteredOutError
  /\ (hMethod = "POST" /\ DedupeHasRun) =>
       /\ Len(hValidated) >= 1
       /\ 1 <= Len(hDeduped)
       /\ Len(hDeduped) <= Len(hValidated)
       /\ hDeduped[1].page_from = ScoredValidated[1].page_from
       /\ hDeduped[1].page_to = ScoredValidated[1].page_to
       /\ \E k \in 1..Len(hValidated) :
            /\ hDeduped[1].question = ScoredValidated[k].question
            /\ hDeduped[1].answer = ScoredValidated[k].answer
            /\ hDeduped[1].confidence = ScoredValidated[k].confidence

\* Three validated cards were merged into one entry, which carries the text
\* of a later, more confident card.
C30_Witness ==
  /\ hpc = "done"
  /\ hResponse.status = 200
  /\ hResponse.body = "success"
  /\ Len(hValidated) = 3
  /\ Len(hDeduped) = 1
  /\ hDeduped[1].answer # hValidated[1].answer

====
